---- MODULE Spec2Model ----
(***************************************************************************)
(* A model of constellate's classification engine: the category store      *)
(* (makeStoreFromStreamlined, applyQaFix, backfillCategoriesFromIndex),    *)
(* the pipeline that drives it (processEverything from the Facts pass to   *)
(* onFinish), the resilient streaming executor (safeStreamObject with      *)
(* fitMessagesWithinBudget and headTailSlice), and, each on its own,       *)
(* fitMessagesWithinBudget, headTailSlice, computeCategoryBudget,          *)
(* streamWithAutoShrink, makeTruncationPlan with its cache, the Facts      *)
(* loop with graftFactsIntoFeatures, the order of the passes and their     *)
(* streams, and mergeExpandPlans.                                          *)
(***************************************************************************)
EXTENDS Integers, Sequences, FiniteSets, TLC

VARIABLES
    store,      \* ConstellateStore: [categories, index]
    phase,      \* position of the store's owner: which operation ran last
    nfix,       \* number of applyQaFix calls made on the store
    lastFix,    \* the Fix of the last applyQaFix call
    preStore,   \* the store as it was when the last operation started
    merged,     \* the merged Expand proposal (categories, assignments)
    autofilled, \* ids the Streamline coverage repair had to assign
    artifacts,  \* whether the artifacts were written
    finished,   \* whether onFinish was invoked
    messages,        \* safeStreamObject: the messages of the request
    maxRetries,      \* safeStreamObject: its retry bound
    context,         \* the context limit of the request's model
    attempt,         \* safeStreamObject: the attempt counter
    currentMessages, \* safeStreamObject: the messages of the next attempt
    sent,            \* the message lists passed to streamObject, in order
    thrown,          \* the errors streamObject threw, in order
    raised,          \* the error safeStreamObject raised to its caller
    streamError,     \* the error the returned stream raised under its consumer
    calling,         \* position of safeStreamObject
    threw,       \* processEverything: what its last step threw, if it did
    surfaced,    \* processEverything: the error its outer catch received
    unrepaired,  \* the Streamline result the coverage repair started from
    finalRefined,  \* the result the Refine stream ended with, if it had one
    fitMsgs,     \* fitMessagesWithinBudget: the caller's messages
    fitMax,      \* fitMessagesWithinBudget: maxInputTokens
    fitOut,      \* the results of the successive fit calls, each on the last
    sliceText,   \* headTailSlice: its text
    sliceMax,    \* headTailSlice: its maxTokens
    sliceOut,    \* headTailSlice: the results returned so far
    minCatSize,     \* the configured CONSTELLATE_MIN_CAT_SIZE
    maxCategories,  \* the configured CONSTELLATE_MAX_CATEGORIES
    repoCount,      \* computeCategoryBudget: its last argument
    budgets,        \* the budgets computed for repoCount - 1 and repoCount
    initialBatch,   \* streamWithAutoShrink: the records it was given
    groups,         \* the pending calls of streamWithAutoShrink, next first
    processed,      \* the calls of processBatch made so far, in order
    shrinkRaised,   \* the error streamWithAutoShrink raised to its caller
    planCache,   \* truncationPlanCache: the plan stored under each key
    planCalls,   \* the calls of makeTruncationPlan so far, in order of start
    lookups,     \* the number of loadModelLimits calls made for them
    factFeatures,      \* repoFeatures: the facts grafted on each record
    factGroups,        \* the micro-batches the Facts generator has yet to stream
    factChunks,        \* the partials the open micro-batch stream has yielded
    finalFactsResult,  \* the latest partial the Facts loop received, if any
    microResults,      \* the final result of every micro-batch streamed so far
    factsPhase,        \* "streaming", "grafted" or "failed"
    orderAt,       \* the step of processEverything the run is in (its rank)
    orderPc,       \* "ready" before a call of the step, "streaming" in its loop
    orderLog,      \* the calls started so far: step and streams open at the start
    openStreams,   \* the inference streams opened and not yet exhausted
    batchesLeft,   \* the batches the step in hand has yet to stream
    mergeIn,       \* plans: the argument of a mergeExpandPlans call
    mergeOut,      \* what that call returned
    mergeState     \* "called", "returned", "threw" ("idle" when not in use)

\* the pipeline run: what happened to its steps
runVars == <<threw, surfaced, unrepaired, finalRefined>>

storeVars == <<store, phase, nfix, lastFix, preStore, merged, autofilled,
               artifacts, finished, runVars>>

streamVars == <<messages, maxRetries, context, attempt, currentMessages,
                sent, thrown, raised, streamError, calling>>

\* the arguments and results of the functions exercised on their own
fitVars == <<fitMsgs, fitMax, fitOut>>

sliceVars == <<sliceText, sliceMax, sliceOut>>

budgetVars == <<minCatSize, maxCategories, repoCount, budgets>>

shrinkVars == <<initialBatch, groups, processed, shrinkRaised>>

planVars == <<planCache, planCalls, lookups>>

factsVars == <<factFeatures, factGroups, factChunks, finalFactsResult,
               microResults, factsPhase>>

orderVars == <<orderAt, orderPc, orderLog, openStreams, batchesLeft>>

mergeVars == <<mergeIn, mergeOut, mergeState>>

moreVars == <<planVars, factsVars, orderVars, mergeVars>>

pureVars == <<fitVars, sliceVars, budgetVars, shrinkVars, moreVars>>

nonFitVars == <<storeVars, streamVars, sliceVars, budgetVars, shrinkVars,
                moreVars>>

nonSliceVars == <<storeVars, streamVars, fitVars, budgetVars, shrinkVars,
                  moreVars>>

nonBudgetVars == <<storeVars, streamVars, fitVars, sliceVars, shrinkVars,
                   moreVars>>

nonShrinkVars == <<storeVars, streamVars, fitVars, sliceVars, budgetVars,
                   moreVars>>

\* everything but the groups of moreVars
coreVars == <<storeVars, streamVars, fitVars, sliceVars, budgetVars,
              shrinkVars>>

nonPlanVars == <<coreVars, factsVars, orderVars, mergeVars>>

nonFactsVars == <<coreVars, planVars, orderVars, mergeVars>>

nonOrderVars == <<coreVars, planVars, factsVars, mergeVars>>

nonMergeVars == <<coreVars, planVars, factsVars, orderVars>>

nonStoreVars == <<streamVars, pureVars>>

nonStreamVars == <<storeVars, pureVars>>

vars == <<storeVars, streamVars, pureVars>>

(***************************************************************************)
(* Generic helpers                                                         *)
(***************************************************************************)
Range(s) == {s[i] : i \in 1..Len(s)}

SeqsUpTo(S, n) == UNION {[1..k -> S] : k \in 0..n}

Max2(a, b) == IF a >= b THEN a ELSE b

Min2(a, b) == IF a <= b THEN a ELSE b

(***************************************************************************)
(* Input records (the RepoFeature array)                                   *)
(***************************************************************************)
\* ids of the input records, in repoFeatures order
RepoIds == <<"a", "b">>

\* an id the inference service may return that names no input record
ForeignIds == {"z"}

Infinity == 1000000

\* daysSince(pushed_at) of each record, Infinity when it has no date
LastCommitDays(id) ==
    IF id = "a" THEN 3 ELSE Infinity

\* String.prototype.localeCompare on the ids in use
IdRank(id) ==
    CASE id = "a" -> 1
      [] id = "b" -> 2
      [] id = "z" -> 3
      [] OTHER -> 4

(***************************************************************************)
(* slugify(text, {lower, strict, trim}) on the category names in use       *)
(***************************************************************************)
Slugify(text) ==
    CASE text = "Web" -> "web"
      [] text = "Misc" -> "misc"
      [] text = "Tools" -> "tools"
      [] text = "Libraries" -> "libraries"
      [] text = " " -> ""
      [] OTHER -> text

cachedSlugify(text) == Slugify(text)

\* s.trim() is the empty string
IsBlank(s) == s \in {"", " "}

\* category.replace(/-/g, ' ').replace(/\b\w/g, upper) on the slugs in use
TitleCase(slug) ==
    CASE slug = "web" -> "Web"
      [] slug = "misc" -> "Misc"
      [] slug = "tools" -> "Tools"
      [] slug = "libraries" -> "Libraries"
      [] slug = "uncategorized" -> "Uncategorized"
      [] slug = "web-2" -> "Web 2"
      [] slug = "web-3" -> "Web 3"
      [] slug = "web-2-2" -> "Web 2 2"
      [] OTHER -> slug

\* the titles in use, in localeCompare order (equal strings share a rank)
TitleOrder ==
    <<"", " ", "libraries", "Libraries", "misc", "Misc", "tools", "Tools",
      "uncategorized", "Uncategorized", "web", "Web", "Web 2", "Web 2 2",
      "Web 3", "web-2", "web-2-2", "web-3">>

TitleRank(t) ==
    IF \E i \in 1..Len(TitleOrder) : TitleOrder[i] = t
    THEN CHOOSE i \in 1..Len(TitleOrder) : TitleOrder[i] = t
    ELSE Len(TitleOrder) + 1

(***************************************************************************)
(* Array.prototype.sort (stable) with the two comparators of the store     *)
(***************************************************************************)
\* (a, b) => aDays !== bDays ? aDays - bDays : a.id.localeCompare(b.id) < 0
RepoLess(x, y) ==
    IF x.days # y.days THEN x.days < y.days ELSE IdRank(x.id) < IdRank(y.id)

\* (a, b) => a.title.localeCompare(b.title) < 0
TitleLess(x, y) == TitleRank(x.title) < TitleRank(y.title)

\* x placed before the first element of the sorted s that it precedes, so
\* that elements the comparator calls equal keep their order
RECURSIVE InsertRepo(_, _)
InsertRepo(x, s) ==
    IF s = <<>> THEN <<x>>
    ELSE IF RepoLess(x, Head(s)) THEN <<x>> \o s
    ELSE <<Head(s)>> \o InsertRepo(x, Tail(s))

RECURSIVE SortRepoList(_)
SortRepoList(s) ==
    IF s = <<>> THEN <<>>
    ELSE InsertRepo(s[Len(s)], SortRepoList(SubSeq(s, 1, Len(s) - 1)))

RECURSIVE InsertCategory(_, _)
InsertCategory(x, s) ==
    IF s = <<>> THEN <<x>>
    ELSE IF TitleLess(x, Head(s)) THEN <<x>> \o s
    ELSE <<Head(s)>> \o InsertCategory(x, Tail(s))

\* store.categories.sort(by title)
RECURSIVE SortCategories(_)
SortCategories(s) ==
    IF s = <<>> THEN <<>>
    ELSE InsertCategory(s[Len(s)], SortCategories(SubSeq(s, 1, Len(s) - 1)))

\* for (const c of store.categories) c.repos.sort(by recency, then id)
SortRepos(cats) ==
    [i \in 1..Len(cats) |-> [cats[i] EXCEPT !.repos = SortRepoList(@)]]

(***************************************************************************)
(* Insertion-ordered maps keyed by slug (Map<string, Category>) and the    *)
(* index object (Record<id, {category}>), both kept in insertion order     *)
(***************************************************************************)
CatHas(cats, slug) == \E i \in 1..Len(cats) : cats[i].slug = slug

\* Array.prototype.find / Map.get: the first category with that slug
CatPos(cats, slug) ==
    CHOOSE i \in 1..Len(cats) :
        /\ cats[i].slug = slug
        /\ \A j \in 1..(i - 1) : cats[j].slug # slug

\* Map.set: replaces the value of an existing key in place, else appends
CatSet(cats, c) ==
    IF CatHas(cats, c.slug)
    THEN [cats EXCEPT ![CatPos(cats, c.slug)] = c]
    ELSE Append(cats, c)

PushRepo(cats, slug, r) ==
    [cats EXCEPT ![CatPos(cats, slug)].repos = Append(@, r)]

IndexKeys(index) == {index[i].id : i \in 1..Len(index)}

IndexGet(index, id) ==
    index[CHOOSE i \in 1..Len(index) : index[i].id = id].category

\* store.index[id] = { category }
IndexSet(index, id, slug) ==
    IF id \in IndexKeys(index)
    THEN [i \in 1..Len(index) |->
            IF index[i].id = id THEN [id |-> id, category |-> slug]
            ELSE index[i]]
    ELSE Append(index, [id |-> id, category |-> slug])

NonEmpty_KeepAll(cats) == cats

NonEmpty(cats) == SelectSeq(cats, LAMBDA c : Len(c.repos) > 0)

NewCategory(slug, title, description, criteria) ==
    [slug |-> slug, title |-> title, description |-> description,
     criteria |-> criteria, repos |-> <<>>]

EmptyStore == [categories |-> <<>>, index |-> <<>>]

(***************************************************************************)
(* makeStoreFromStreamlined                                                *)
(***************************************************************************)
\* the while loop of uniqueSlug: base, base-2, base-3, ...
RECURSIVE uniqueSlugFrom(_, _, _)
uniqueSlugFrom(base, slugSeen, i) ==
    LET s == IF i = 1 THEN base ELSE base \o "-" \o ToString(i)
    IN  IF s \in slugSeen THEN uniqueSlugFrom(base, slugSeen, i + 1) ELSE s

uniqueSlug_NoGuard(base, slugSeen) == base

uniqueSlug(base, slugSeen) == uniqueSlugFrom(base, slugSeen, 1)

\* for (const c of streamlined.categories): state is [cats, seen]
RECURSIVE CreateCategories(_, _)
CreateCategories(drafts, acc) ==
    IF drafts = <<>> THEN acc
    ELSE LET c == Head(drafts)
             name == IF c.slug # "" THEN c.slug ELSE c.title
         IN  IF name = "" THEN CreateCategories(Tail(drafts), acc)
             ELSE LET s == uniqueSlug(Slugify(name), acc.seen)
                  IN  CreateCategories(Tail(drafts),
                        [cats |-> Append(acc.cats,
                            NewCategory(s, c.title, c.description, c.criteria)),
                         seen |-> acc.seen \cup {s}])

\* for (const r of streamlined.repos): state is the store
RECURSIVE AssignRepos(_, _)
AssignRepos(repos, st) ==
    IF repos = <<>> THEN st
    ELSE LET r == Head(repos)
             primaryCategory ==
                 IF r.primaryCategory # "" THEN r.primaryCategory
                 ELSE "uncategorized"
             catSlug == Slugify(primaryCategory)
             cats1 == IF CatHas(st.categories, catSlug) THEN st.categories
                      ELSE Append(st.categories,
                             NewCategory(catSlug, primaryCategory, "", ""))
             entry == [id |-> r.id, days |-> LastCommitDays(r.id)]
         IN  AssignRepos(Tail(repos),
                [categories |-> PushRepo(cats1, catSlug, entry),
                 index |-> IndexSet(st.index, r.id, catSlug)])

makeStoreFromStreamlined(streamlined) ==
    LET created == CreateCategories(streamlined.categories,
                                    [cats |-> <<>>, seen |-> {}])
        assigned == AssignRepos(streamlined.repos,
                                [categories |-> created.cats, index |-> <<>>])
    IN  [categories |-> SortCategories(SortRepos(assigned.categories)),
         index |-> assigned.index]

(***************************************************************************)
(* applyQaFix                                                              *)
(***************************************************************************)
\* the last index of the key k in keys (Map.set: the last entry wins)
LastPos(keys, k) ==
    CHOOSE i \in 1..Len(keys) :
        /\ keys[i] = k
        /\ \A j \in (i + 1)..Len(keys) : keys[j] # k

\* 1) aliasTo: Map(slug(alias) -> slug(target)), later entries overwrite
AliasMap(fix) ==
    LET valid == SelectSeq(fix.aliases,
                    LAMBDA e : ~IsBlank(e.alias) /\ ~IsBlank(e.target))
        KeyOf(e) == cachedSlugify(e.alias)
        keys == [i \in 1..Len(valid) |-> KeyOf(valid[i])]
    IN  [k \in Range(keys) |->
            cachedSlugify(valid[LastPos(keys, k)].target)]

\* 2) canon: Map(slug -> Category with no repos) from fix.categories
RECURSIVE CanonFrom(_, _)
CanonFrom(drafts, canon) ==
    IF drafts = <<>> THEN canon
    ELSE LET c == Head(drafts)
             name == IF c.slug # "" THEN c.slug ELSE c.title
         IN  IF name = "" THEN CanonFrom(Tail(drafts), canon)
             ELSE CanonFrom(Tail(drafts),
                    CatSet(canon, NewCategory(cachedSlugify(name), c.title,
                                              c.description, c.criteria)))

\* 3) reassign: Map(id -> slug(toCategory)), later entries overwrite
ReassignMap(fix) ==
    LET valid == SelectSeq(fix.reassign,
                    LAMBDA x : ~IsBlank(x.id) /\ ~IsBlank(x.toCategory))
        keys == [i \in 1..Len(valid) |-> valid[i].id]
    IN  [k \in Range(keys) |->
            cachedSlugify(valid[LastPos(keys, k)].toCategory)]

KillSet_Ignored(fix) == {}

KillSet(fix) ==
    {cachedSlugify(fix.delete[i]) :
        i \in {j \in 1..Len(fix.delete) : ~IsBlank(fix.delete[j])}}

\* target = reassign.has(orig) ? reassign.get(orig) : aliasTo.get(orig) ?? orig
CategoryTarget(fix, orig) ==
    IF orig \in DOMAIN ReassignMap(fix) THEN ReassignMap(fix)[orig]
    ELSE IF orig \in DOMAIN AliasMap(fix) THEN AliasMap(fix)[orig]
    ELSE orig

\* const catSlug = reassign.get(r.id) ?? target
RepoTarget(fix, id, target) ==
    IF id \in DOMAIN ReassignMap(fix) THEN ReassignMap(fix)[id] ELSE target

\* for (const r of c.repos): state is [canon, index]
RECURSIVE MoveRepos(_, _, _, _)
MoveRepos(fix, repos, target, acc) ==
    IF repos = <<>> THEN acc
    ELSE LET r == Head(repos)
             catSlug == RepoTarget(fix, r.id, target)
             canon1 == IF CatHas(acc.canon, catSlug) THEN acc.canon
                       ELSE Append(acc.canon,
                              NewCategory(catSlug, catSlug, "", ""))
         IN  MoveRepos(fix, Tail(repos), target,
                [canon |-> PushRepo(canon1, catSlug, r),
                 index |-> IndexSet(acc.index, r.id, catSlug)])

\* for (const c of store.categories): state is [canon, index]
RECURSIVE MoveCategories(_, _, _)
MoveCategories(fix, cats, acc) ==
    IF cats = <<>> THEN acc
    ELSE LET c == Head(cats)
             orig == c.slug
             target == CategoryTarget(fix, orig)
         IN  IF orig \in KillSet(fix) THEN MoveCategories(fix, Tail(cats), acc)
             ELSE LET canon1 ==
                          IF CatHas(acc.canon, target) THEN acc.canon
                          ELSE Append(acc.canon,
                                 NewCategory(target, c.title, c.description,
                                             c.criteria))
                  IN  MoveCategories(fix, Tail(cats),
                        MoveRepos(fix, c.repos, target,
                                  [canon |-> canon1, index |-> acc.index]))

\* an applyQaFix that also forgets the index entries of the records it drops
applyQaFix_PrunesIndex(st, fix) ==
    LET moved == MoveCategories(fix, st.categories,
                    [canon |-> CanonFrom(fix.categories, <<>>),
                     index |-> st.index])
        kept == UNION {{moved.canon[i].repos[j].id :
                           j \in 1..Len(moved.canon[i].repos)} :
                       i \in 1..Len(moved.canon)}
    IN  [categories |-> SortCategories(SortRepos(NonEmpty(moved.canon))),
         index |-> SelectSeq(moved.index, LAMBDA e : e.id \in kept)]

applyQaFix(st, fix) ==
    LET moved == MoveCategories(fix, st.categories,
                    [canon |-> CanonFrom(fix.categories, <<>>),
                     index |-> st.index])
    IN  [categories |-> SortCategories(SortRepos(NonEmpty(moved.canon))),
         index |-> moved.index]

(***************************************************************************)
(* backfillCategoriesFromIndex                                             *)
(***************************************************************************)
\* new Map(store.categories.map(c => [c.slug, c]))
RECURSIVE CatBySlug(_, _)
CatBySlug(cats, m) ==
    IF cats = <<>> THEN m ELSE CatBySlug(Tail(cats), CatSet(m, Head(cats)))

EnsureCategories_Skipped(index, m) == m

\* for (const { category } of Object.values(store.index))
RECURSIVE EnsureCategories(_, _)
EnsureCategories(index, m) ==
    IF index = <<>> THEN m
    ELSE LET category == Head(index).category
         IN  EnsureCategories(Tail(index),
                IF CatHas(m, category) THEN m
                ELSE Append(m, NewCategory(category, TitleCase(category),
                                           "", "")))

ClearRepos(m) == [i \in 1..Len(m) |-> [m[i] EXCEPT !.repos = <<>>]]

\* for (const [id, { category }] of Object.entries(store.index))
RECURSIVE RebuildRepos(_, _)
RebuildRepos(index, m) ==
    IF index = <<>> THEN m
    ELSE LET e == Head(index)
         IN  RebuildRepos(Tail(index),
                IF CatHas(m, e.category)
                THEN PushRepo(m, e.category,
                        [id |-> e.id, days |-> LastCommitDays(e.id)])
                ELSE m)

\* a backfill that keeps the categories left without a record
backfillCategoriesFromIndex_KeepsEmpty(st) ==
    LET catBySlug == EnsureCategories(st.index, CatBySlug(st.categories, <<>>))
        rebuilt == RebuildRepos(st.index, ClearRepos(catBySlug))
    IN  [categories |-> SortRepos(SortCategories(rebuilt)),
         index |-> st.index]

backfillCategoriesFromIndex(st) ==
    LET catBySlug == EnsureCategories(st.index, CatBySlug(st.categories, <<>>))
        rebuilt == RebuildRepos(st.index, ClearRepos(catBySlug))
    IN  [categories |-> SortRepos(SortCategories(NonEmpty(rebuilt))),
         index |-> st.index]

(***************************************************************************)
(* Inference outputs: the StreamlinedPlan and the Fix objects              *)
(***************************************************************************)
MaxRepos == 2

Draft(slug, title, description, criteria) ==
    [slug |-> slug, title |-> title, description |-> description,
     criteria |-> criteria]

\* in a CategoryDraft, slug "" stands for no slug
StreamRepo(id, primaryCategory) ==
    [id |-> id, primaryCategory |-> primaryCategory]

\* StreamlinedRepo values; primaryCategory "" stands for a missing one
StreamRepoItems ==
    [id : Range(RepoIds), primaryCategory : {"Web", "Misc"}]
        \cup {StreamRepo("b", "")}
        \cup {StreamRepo(id, "Misc") : id \in ForeignIds}

StreamCategoryLists ==
    {<<>>,
     <<Draft("", "Web", "sites", "serves http")>>,
     <<Draft("", "Web", "sites", "serves http"), Draft("web", "Misc", "", "")>>,
     <<Draft("web", "Misc", "", ""), Draft("", "Web", "sites", "serves http")>>}

StreamPlans ==
    [categories : StreamCategoryLists,
     repos : SeqsUpTo(StreamRepoItems, MaxRepos)]

Alias(alias, target) == [alias |-> alias, target |-> target]

Move(id, toCategory) == [id |-> id, toCategory |-> toCategory]

FixCategoryLists ==
    {<<>>,
     <<Draft("", "Misc", "the rest", "")>>,
     <<Draft("", "Misc", "the rest", ""), Draft("tools", "Tools", "", "")>>}

FixAliasLists ==
    {<<>>,
     <<Alias("Web", "misc")>>,
     <<Alias("web", "Misc"), Alias("misc", "tools")>>}

FixReassignLists ==
    {<<>>, <<Move("a", "Tools")>>, <<Move("web", "tools")>>}

FixDeleteLists == {<<>>, <<"Misc">>, <<"web">>}

Fixes ==
    [categories : FixCategoryLists, aliases : FixAliasLists,
     reassign : FixReassignLists, delete : FixDeleteLists]

NoFix == [categories |-> <<>>, aliases |-> <<>>, reassign |-> <<>>,
          delete |-> <<>>]

NoPlan == [categories |-> <<>>, repos |-> <<>>]

Assignment(repo, key) == [repo |-> repo, key |-> key]

\* an entry of a plan's summaries
Summary(id, summary, key_topics) ==
    [id |-> id, summary |-> summary, key_topics |-> key_topics]

\* summaries as the array an inference result carries, and as the object
\* keyed by id that mergeExpandPlans returns (entries in insertion order)
SummaryArray(items) == [array |-> TRUE, items |-> items]

SummaryRecord(items) == [array |-> FALSE, items |-> items]

ExpandPlanPlus(categories, assignments, summaries) ==
    [categories |-> categories, assignments |-> assignments,
     summaries |-> SummaryArray(summaries)]

\* a plan without summaries
ExpandPlan(categories, assignments) ==
    ExpandPlanPlus(categories, assignments, <<>>)

\* the complete batch results Pass-1 collected (a batch whose stream never
\* carried categories, assignments and summaries contributes nothing);
\* an assignment's key is a.categories?.[0]?.key, "" when absent
ExpandPlanLists ==
    {<<>>,
     <<ExpandPlan(<<Draft("", "Tools", "", "")>>, <<Assignment("b", "")>>)>>,
     <<ExpandPlan(<<Draft("", "Tools", "", "")>>, <<>>),
       ExpandPlan(<<Draft("tools", "Misc", "", ""),
                    Draft("", "Libraries", "", "")>>,
                  <<Assignment("b", "Web")>>)>>}

\* the last partial object of the Refine stream
RefinePlans ==
    {ExpandPlan(<<Draft("", "Libraries", "", "")>>,
                <<Assignment("a", "Tools")>>)}

NoMerged == [categories |-> <<>>, assignments |-> <<>>,
             summaries |-> SummaryRecord(<<>>)]

(***************************************************************************)
(* Strings.  A string is kept run-length encoded: a sequence of runs       *)
(* [c, n] (the character c repeated n >= 1 times) in which adjacent runs   *)
(* have different characters, so that equal strings are equal values and   *)
(* texts of tens of thousands of characters stay small.                    *)
(***************************************************************************)
Run(c, n) == [c |-> c, n |-> n]

RECURSIVE NormFrom(_, _)
NormFrom(runs, acc) ==
    IF runs = <<>> THEN acc
    ELSE LET r == Head(runs)
         IN  IF r.n = 0 THEN NormFrom(Tail(runs), acc)
             ELSE IF acc # <<>> /\ acc[Len(acc)].c = r.c
                  THEN NormFrom(Tail(runs),
                           [acc EXCEPT ![Len(acc)].n = @ + r.n])
                  ELSE NormFrom(Tail(runs), Append(acc, r))

\* the string made of the given runs
Text(runs) == NormFrom(runs, <<>>)

\* the string made of the given characters
Lit(cs) == Text([i \in 1..Len(cs) |-> Run(cs[i], 1)])

MinOf(S) == CHOOSE x \in S : \A y \in S : x <= y

\* s.length
RECURSIVE TLen(_)
TLen(t) == IF t = <<>> THEN 0 ELSE Head(t).n + TLen(Tail(t))

\* index (from 0) of the first character of run j
StartOf(t, j) == TLen(SubSeq(t, 1, j - 1))

\* s[i]
CharAt(t, i) ==
    LET j == CHOOSE k \in 1..Len(t) :
                 StartOf(t, k) <= i /\ i < StartOf(t, k) + t[k].n
    IN  t[j].c

\* the characters of t at the indices from..to-1
Between(t, from, to) ==
    Text([j \in 1..Len(t) |->
            Run(t[j].c, Max2(0, Min2(StartOf(t, j) + t[j].n, to)
                                - Max2(StartOf(t, j), from)))])

\* how String.prototype.slice reads an index: negative counts from the end
StrIndex(len, i) == IF i < 0 THEN Max2(len + i, 0) ELSE Min2(i, len)

\* s.slice(start, end)
Slice(t, start, end) ==
    Between(t, StrIndex(TLen(t), start), StrIndex(TLen(t), end))

\* s.slice(start)
SliceFrom(t, start) == Between(t, StrIndex(TLen(t), start), TLen(t))

\* the characters \s matches, of those the texts here are made of
Whitespace == {" ", "\n", "\t"}

RECURSIVE TrimStart(_)
TrimStart(t) ==
    IF t # <<>> /\ Head(t).c \in Whitespace THEN TrimStart(Tail(t)) ELSE t

RECURSIVE TrimEnd(_)
TrimEnd(t) ==
    IF t # <<>> /\ t[Len(t)].c \in Whitespace
    THEN TrimEnd(SubSeq(t, 1, Len(t) - 1))
    ELSE t

\* s.trim()
Trim(t) == TrimEnd(TrimStart(t))

\* s.search(/\s/)
SearchWhitespace(t) ==
    LET hits == {j \in 1..Len(t) : t[j].c \in Whitespace}
    IN  IF hits = {} THEN -1 ELSE StartOf(t, MinOf(hits))

\* s.search(/[.!?]\s/)
SearchSentenceBreak(t) ==
    LET hits == {j \in 1..(Len(t) - 1) :
                    t[j].c \in {".", "!", "?"} /\ t[j + 1].c \in Whitespace}
    IN  IF hits = {} THEN -1
        ELSE StartOf(t, MinOf(hits)) + t[MinOf(hits)].n - 1

(***************************************************************************)
(* Token estimation and head+tail truncation (lib/tokens.ts)               *)
(***************************************************************************)
approxCharsPerToken == 4

\* Math.ceil(s.length / approxCharsPerToken)
estimateTokens(s) ==
    (TLen(s) + approxCharsPerToken - 1) \div approxCharsPerToken

\* "\n\n[...content truncated...]\n\n"
Marker ==
    Text(<<Run("\n", 2), Run("[", 1), Run(".", 3)>>
         \o Lit(<<"c", "o", "n", "t", "e", "n", "t", " ",
                  "t", "r", "u", "n", "c", "a", "t", "e", "d">>)
         \o <<Run(".", 3), Run("]", 1), Run("\n", 2)>>)

\* tail.replace(/^[^\n]*$/, match => ...): the pattern matches the whole
\* tail, and only when the tail has no line feed
CleanTail(tail) ==
    IF \E j \in 1..Len(tail) : tail[j].c = "\n" THEN tail
    ELSE LET sentenceBreak == SearchSentenceBreak(tail)
             wordBreak == SearchWhitespace(tail)
         IN  IF 10 * sentenceBreak > 3 * TLen(tail)
             THEN Slice(tail, 0, sentenceBreak + 1)
             ELSE IF 2 * wordBreak > TLen(tail)
                  THEN Slice(tail, 0, wordBreak)
                  ELSE tail

\* a slicer that keeps the first half of a text over the limit
headTailSlice_KeepsHalf(text, maxTokens) ==
    IF text = <<>> THEN text
    ELSE IF estimateTokens(text) <= maxTokens THEN text
    ELSE Slice(text, 0, TLen(text) \div 2)

\* headTailSlice without the 8 tokens it sets aside for the marker
headTailSlice_NoMarkerRoom(text, maxTokens) ==
    IF text = <<>> THEN text
    ELSE IF estimateTokens(text) <= maxTokens THEN text
    ELSE LET availableTokens == Max2(32, maxTokens)
             headTokenCount == Max2(16, (availableTokens * 3) \div 4)
             tailTokenCount == Max2(8, availableTokens - headTokenCount)
             head == Slice(text, 0, headTokenCount * approxCharsPerToken)
             tail == SliceFrom(text,
                         0 - tailTokenCount * approxCharsPerToken)
         IN  Text(Trim(head) \o Marker \o Trim(CleanTail(tail)))

\* headTailSlice(text, maxTokens) with the default headRatio 0.75
headTailSlice(text, maxTokens) ==
    IF text = <<>> THEN text
    ELSE IF estimateTokens(text) <= maxTokens THEN text
    ELSE LET availableTokens == Max2(32, maxTokens - 8)
             headTokenCount == Max2(16, (availableTokens * 3) \div 4)
             tailTokenCount == Max2(8, availableTokens - headTokenCount)
             head == Slice(text, 0, headTokenCount * approxCharsPerToken)
             tail == SliceFrom(text,
                         0 - tailTokenCount * approxCharsPerToken)
         IN  Text(Trim(head) \o Marker \o Trim(CleanTail(tail)))

(***************************************************************************)
(* Messages.  A message is [role, content]; its content is a string        *)
(* (kind "string", text) or an array of text parts (kind "array", parts).  *)
(***************************************************************************)
StringContent(t) == [kind |-> "string", text |-> t, parts |-> <<>>]

ArrayContent(ps) == [kind |-> "array", text |-> <<>>, parts |-> ps]

Message(role, content) == [role |-> role, content |-> content]

RECURSIVE Repeat(_, _)
Repeat(runs, n) == IF n = 0 THEN <<>> ELSE runs \o Repeat(runs, n - 1)

\* the JSON escape of one run of characters
EscapeRun(r) ==
    IF r.c = "\"" THEN Repeat(<<Run("\\", 1), Run("\"", 1)>>, r.n)
    ELSE IF r.c = "\\" THEN <<Run("\\", 2 * r.n)>>
    ELSE IF r.c = "\n" THEN Repeat(<<Run("\\", 1), Run("n", 1)>>, r.n)
    ELSE IF r.c = "\t" THEN Repeat(<<Run("\\", 1), Run("t", 1)>>, r.n)
    ELSE <<r>>

RECURSIVE EscapeRuns(_)
EscapeRuns(t) ==
    IF t = <<>> THEN <<>> ELSE EscapeRun(Head(t)) \o EscapeRuns(Tail(t))

\* JSON.stringify of a string
JsonString(t) == Lit(<<"\"">>) \o EscapeRuns(t) \o Lit(<<"\"">>)

\* JSON.stringify of the text part {type: 'text', text: t}
JsonPart(t) ==
    Lit(<<"{", "\"", "t", "y", "p", "e", "\"", ":", "\"", "t", "e", "x",
          "t", "\"", ",", "\"", "t", "e", "x", "t", "\"", ":">>)
    \o JsonString(t) \o Lit(<<"}">>)

RECURSIVE JsonParts(_)
JsonParts(ps) ==
    IF ps = <<>> THEN <<>>
    ELSE JsonPart(Head(ps))
         \o (IF Tail(ps) = <<>> THEN <<>> ELSE Lit(<<",">>))
         \o JsonParts(Tail(ps))

\* JSON.stringify(content || '') of an array content
JsonStringify(ps) == Text(Lit(<<"[">>) \o JsonParts(ps) \o Lit(<<"]">>))

(***************************************************************************)
(* Budget planning and message fitting (lib/budget.ts)                     *)
(***************************************************************************)
SYS_OVERHEAD == 300

JSON_OVERHEAD == 300

MinInput == 4096

\* the reserveOutput safeStreamObject defaults to
DefaultReserveOutput == 2048

\* makeTruncationPlan(modelId, reserveOutput) for a model whose limits
\* have the given context
makeTruncationPlan(ctx, reserveOutput) ==
    [maxInput |-> Max2(MinInput, ctx - reserveOutput - SYS_OVERHEAD),
     reserveOutput |-> reserveOutput]

\* '[ARRAY_CONTENT]'
ArrayPlaceholder ==
    Lit(<<"[", "A", "R", "R", "A", "Y", "_", "C", "O", "N", "T", "E", "N",
          "T", "]">>)

\* counts[i].tokens
MessageTokens(m) ==
    IF m.content.kind = "string" THEN estimateTokens(m.content.text)
    ELSE Len(m.content.parts) * 10

RECURSIVE SumSeq(_)
SumSeq(ns) == IF ns = <<>> THEN 0 ELSE Head(ns) + SumSeq(Tail(ns))

\* a comparator that puts system messages first
Prio_SystemFirst(role) ==
    IF role = "system" THEN 0 ELSE IF role = "user" THEN 1 ELSE 2

\* prio(role)
Prio(role) == IF role = "user" THEN 0 ELSE IF role = "system" THEN 1 ELSE 2

\* the sort's comparator, with the order a stable sort leaves equal items in
TrimsBefore(msgs, counts, i, j) ==
    \/ Prio(msgs[i].role) < Prio(msgs[j].role)
    \/ /\ Prio(msgs[i].role) = Prio(msgs[j].role)
       /\ \/ counts[i] > counts[j]
          \/ counts[i] = counts[j] /\ i < j

\* order: the message indices, user first, larger first
TrimOrder(msgs, counts) ==
    [k \in 1..Len(msgs) |->
        CHOOSE i \in 1..Len(msgs) :
            Cardinality({j \in 1..Len(msgs) :
                            TrimsBefore(msgs, counts, j, i)}) = k - 1]

\* cloned: array content becomes a placeholder string
CloneMessage(m) ==
    IF m.content.kind = "string" THEN m
    ELSE [m EXCEPT !.content = StringContent(ArrayPlaceholder)]

\* the loop `for (const { i } of order)`
RECURSIVE FitLoop(_, _, _, _, _, _)
FitLoop(order, cloned, counts, total, trimmed, maxInputTokens) ==
    IF order = <<>> \/ total <= maxInputTokens
    THEN [messages |-> cloned, trimmed |-> trimmed]
    ELSE LET i == Head(order)
             currentTokens == counts[i]
             available == maxInputTokens - (total - currentTokens)
             target == Max2(512, (available * 6) \div 10)
             shortened == headTailSlice(cloned[i].content.text, target)
             newTokens == estimateTokens(shortened)
         IN  IF shortened # cloned[i].content.text
             THEN FitLoop(Tail(order),
                      [cloned EXCEPT ![i].content.text = shortened],
                      [counts EXCEPT ![i] = newTokens],
                      total - currentTokens + newTokens,
                      TRUE, maxInputTokens)
             ELSE FitLoop(Tail(order), cloned, counts, total, trimmed,
                      maxInputTokens)

\* a fit that gives up the last message of a request over budget
fitMessagesWithinBudget_DropsLast(msgs, maxInputTokens) ==
    LET counts == [i \in 1..Len(msgs) |-> MessageTokens(msgs[i])]
        total == SumSeq(counts) + JSON_OVERHEAD
    IN  IF total <= maxInputTokens
        THEN [messages |-> msgs, trimmed |-> FALSE]
        ELSE [messages |-> SubSeq(msgs, 1, Len(msgs) - 1), trimmed |-> TRUE]

fitMessagesWithinBudget(msgs, maxInputTokens) ==
    LET counts == [i \in 1..Len(msgs) |-> MessageTokens(msgs[i])]
        total == SumSeq(counts) + JSON_OVERHEAD
    IN  IF total <= maxInputTokens
        THEN [messages |-> msgs, trimmed |-> FALSE]
        ELSE FitLoop(TrimOrder(msgs, counts),
                 [i \in 1..Len(msgs) |-> CloneMessage(msgs[i])],
                 counts, total, FALSE, maxInputTokens)

(***************************************************************************)
(* The resilient streaming executor (lib/safe-stream.ts)                   *)
(***************************************************************************)
\* '"readme":"'
ReadmeKey == <<"\"", "r", "e", "a", "d", "m", "e", "\"", ":", "\"">>

\* '"readme":"[TRUNCATED]"'
ReadmePlaceholder ==
    Lit(ReadmeKey
        \o <<"[", "T", "R", "U", "N", "C", "A", "T", "E", "D", "]", "\"">>)

\* the indices of the double quotes of t
Quotes(t) ==
    UNION {StartOf(t, j)..(StartOf(t, j) + t[j].n - 1) :
              j \in {k \in 1..Len(t) : t[k].c = "\""}}

KeyAt(t, p) ==
    /\ p + Len(ReadmeKey) <= TLen(t)
    /\ \A k \in 1..Len(ReadmeKey) : CharAt(t, p + k - 1) = ReadmeKey[k]

\* the first match of /"readme":"[\s\S]*?"/ at or after pos, as
\* <<first index, index after the last>>; <<>> when there is none
ReadmeMatch(t, pos) ==
    LET closing(p) == {q \in Quotes(t) : q >= p + Len(ReadmeKey)}
        starts == {p \in Quotes(t) :
                      p >= pos /\ KeyAt(t, p) /\ closing(p) # {}}
    IN  IF starts = {} THEN <<>>
        ELSE <<MinOf(starts), MinOf(closing(MinOf(starts))) + 1>>

RECURSIVE ReplaceReadmeFrom(_, _)
ReplaceReadmeFrom(t, pos) ==
    LET m == ReadmeMatch(t, pos)
    IN  IF m = <<>> THEN Between(t, pos, TLen(t))
        ELSE Between(t, pos, m[1]) \o ReadmePlaceholder
             \o ReplaceReadmeFrom(t, m[2])

\* content.replace(/"readme":"[\s\S]*?"/g, '"readme":"[TRUNCATED]"')
ReplaceReadme(t) == Text(ReplaceReadmeFrom(t, 0))

\* the retry after an overflow of messages the fit had trimmed
HardTrimReadme(msgs) ==
    [i \in 1..Len(msgs) |->
        IF msgs[i].role # "user" \/ msgs[i].content.kind # "string"
        THEN msgs[i]
        ELSE [msgs[i] EXCEPT
                 !.content.text = ReplaceReadme(msgs[i].content.text)]]

\* the retry after an overflow of messages the fit had not trimmed
HalveContent(m) ==
    IF m.content.kind = "string"
    THEN [m EXCEPT !.content.text =
             Slice(m.content.text, 0, TLen(m.content.text) \div 2)]
    ELSE [m EXCEPT !.content =
             StringContent(JsonStringify(m.content.parts))]

AggressiveTruncation(msgs, maxInput) ==
    fitMessagesWithinBudget([i \in 1..Len(msgs) |-> HalveContent(msgs[i])],
        (maxInput * 6) \div 10).messages

UpperCase ==
    <<"A", "B", "C", "D", "E", "F", "G", "H", "I", "J", "K", "L", "M",
      "N", "O", "P", "Q", "R", "S", "T", "U", "V", "W", "X", "Y", "Z">>

LowerCase ==
    <<"a", "b", "c", "d", "e", "f", "g", "h", "i", "j", "k", "l", "m",
      "n", "o", "p", "q", "r", "s", "t", "u", "v", "w", "x", "y", "z">>

\* the /i flag: letters compare without case
Fold(c) ==
    IF \E i \in 1..Len(UpperCase) : UpperCase[i] = c
    THEN LowerCase[CHOOSE i \in 1..Len(UpperCase) : UpperCase[i] = c]
    ELSE c

\* whether the characters of pattern occur in msg, case ignored
Contains(msg, pattern) ==
    \E i \in 1..(Len(msg) - Len(pattern) + 1) :
        \A k \in 1..Len(pattern) : Fold(msg[i + k - 1]) = pattern[k]

\* the alternatives of the overflow signature
OverflowSignatures ==
    {<<"c", "o", "n", "t", "e", "x", "t", " ", "w", "i", "n", "d", "o", "w">>,
     <<"c", "o", "n", "t", "e", "x", "t", "_", "l", "e", "n", "g", "t", "h">>,
     <<"l", "e", "n", "g", "t", "h", "_", "e", "x", "c", "e", "e", "d", "e",
       "d">>,
     <<"t", "o", "o", " ", "l", "a", "r", "g", "e">>,
     <<"m", "a", "x", "i", "m", "u", "m", " ", "c", "o", "n", "t", "e", "x",
       "t">>,
     <<"t", "o", "k", "e", "n", " ", "l", "i", "m", "i", "t">>}

\* String(err?.message || err): an Error without a message prints "Error"
ErrorText(err) ==
    IF err.message # <<>> THEN err.message ELSE <<"E", "r", "r", "o", "r">>

\* isCtx
IsCtx(err) == \E p \in OverflowSignatures : Contains(ErrorText(err), p)

\* one retry more than maxRetries
Exhausted_OneMore(n, retries) == n > retries + 1

\* `attempt > maxRetries`: the retries are used up
Exhausted(n, retries) == n > retries

\* every error is retried until the retries are used up
GivesUp_OnlyWhenExhausted(err, n, retries) == Exhausted(n, retries)

\* `if (!isCtx || attempt > maxRetries) throw err`
GivesUp(err, n, retries) == ~IsCtx(err) \/ Exhausted(n, retries)

\* a new error that carries the message of the caught one
Rethrow_Wrapped(err) == [id |-> 0, message |-> err.message]

\* `throw err`: what the caller receives for the caught error
Rethrow(err) == err

(***************************************************************************)
(* Requests of the executor                                                *)
(***************************************************************************)
MaxMessages == 2

MaxRetriesBound == 2

SmallText == Text(<<Run("x", 2)>>)

BigPlain == Text(<<Run("x", 20000)>>)

\* {"readme":"xxx...x"}
ReadmeDoc ==
    Text(Lit(<<"{">>) \o Lit(ReadmeKey) \o <<Run("x", 20000)>>
         \o Lit(<<"\"", "}">>))

Prose ==
    Text(<<Run("x", 9000), Run(".", 1), Run(" ", 1), Run("x", 9000),
           Run(" ", 1), Run("x", 500)>>)

Instruction == Text(<<Run("x", 30), Run("\n", 1), Run("x", 10)>>)

MessagePool ==
    {Message("user", StringContent(SmallText)),
     Message("user", StringContent(BigPlain)),
     Message("user", StringContent(ReadmeDoc)),
     Message("assistant", StringContent(Prose)),
     Message("system", StringContent(Instruction)),
     Message("system", StringContent(Prose)),
     Message("user", ArrayContent(<<Text(<<Run("x", 5)>>)>>))}

\* every request carries at least one message
MessageLists == SeqsUpTo(MessagePool, MaxMessages) \ {<<>>}

\* context limits of the models a request may name
Contexts == {4096, 8192}

\* messages of the errors streamObject may throw: "Too Large",
\* "token limit", "invalid token", and an Error without a message
ErrorMessages ==
    {<<"T", "o", "o", " ", "L", "a", "r", "g", "e">>,
     <<"t", "o", "k", "e", "n", " ", "l", "i", "m", "i", "t">>,
     <<"i", "n", "v", "a", "l", "i", "d", " ", "t", "o", "k", "e", "n">>,
     <<>>}

NoError == [id |-> 0, message |-> <<>>]

\* no request is in hand
StreamIdle ==
    /\ messages = <<>>
    /\ maxRetries = 0
    /\ context = 0
    /\ attempt = 0
    /\ currentMessages = <<>>
    /\ sent = <<>>
    /\ thrown = <<>>
    /\ raised = NoError
    /\ streamError = NoError
    /\ calling = "idle"

\* no step of a run has thrown, no Streamline result is in hand
NoPlanYet == [categories |-> <<>>, repos |-> <<>>, merged |-> NoMerged]

\* what the outer catch of processEverything received; "" for nothing
Failure(step, message) == [step |-> step, message |-> message]

NoFailure == Failure("", "")

RunIdle ==
    /\ threw = NoFailure
    /\ surfaced = NoFailure
    /\ unrepaired = NoPlanYet
    /\ finalRefined = NoMerged

\* no store is in hand
StoreIdle ==
    /\ store = EmptyStore
    /\ phase = "idle"
    /\ nfix = 0
    /\ lastFix = NoFix
    /\ preStore = EmptyStore
    /\ merged = NoMerged
    /\ autofilled = {}
    /\ artifacts = {}
    /\ finished = FALSE
    /\ RunIdle

\* no function is exercised on its own
FitIdle == fitMsgs = <<>> /\ fitMax = 0 /\ fitOut = <<>>

SliceIdle == sliceText = <<>> /\ sliceMax = 0 /\ sliceOut = <<>>

BudgetIdle ==
    /\ minCatSize = 0
    /\ maxCategories = 0
    /\ repoCount = 0
    /\ budgets = <<>>

ShrinkIdle ==
    /\ initialBatch = <<>>
    /\ groups = <<>>
    /\ processed = <<>>
    /\ shrinkRaised = NoError

PlanIdle == planCache = {} /\ planCalls = <<>> /\ lookups = 0

FactsIdle ==
    /\ factFeatures = <<>>
    /\ factGroups = <<>>
    /\ factChunks = 0
    /\ finalFactsResult = <<>>
    /\ microResults = <<>>
    /\ factsPhase = "idle"

OrderIdle ==
    /\ orderAt = 0
    /\ orderPc = "idle"
    /\ orderLog = <<>>
    /\ openStreams = {}
    /\ batchesLeft = 0

MergeIdle == mergeIn = <<>> /\ mergeOut = NoMerged /\ mergeState = "idle"

MoreIdle == PlanIdle /\ FactsIdle /\ OrderIdle /\ MergeIdle

PureIdle == FitIdle /\ SliceIdle /\ BudgetIdle /\ ShrinkIdle /\ MoreIdle

\* nothing but the groups of moreVars is in use
CoreIdle ==
    /\ StoreIdle
    /\ StreamIdle
    /\ FitIdle
    /\ SliceIdle
    /\ BudgetIdle
    /\ ShrinkIdle

NonStoreIdle == StreamIdle /\ PureIdle

NonStreamIdle == StoreIdle /\ PureIdle

(***************************************************************************)
(* safeStreamObject: one request, from its entry to its return or throw    *)
(***************************************************************************)
InitStream ==
    /\ NonStreamIdle
    /\ messages \in MessageLists
    /\ maxRetries \in 0..MaxRetriesBound
    /\ context \in Contexts
    /\ attempt = 0
    /\ currentMessages = messages
    /\ sent = <<>>
    /\ thrown = <<>>
    /\ raised = NoError
    /\ streamError = NoError
    /\ calling = "loop"

\* a try block that is still open while the caller consumes the stream
InTry_UntilConsumed(pc) == pc \in {"stream", "returned"}

\* the try block encloses the call of streamObject and `return res`
InTry(pc) == pc = "stream"

\* plan
Plan == makeTruncationPlan(context, DefaultReserveOutput)

\* fitted
Fitted == fitMessagesWithinBudget(currentMessages, Plan.maxInput)

\* the head of the loop, up to the call of streamObject
Attempt ==
    /\ calling = "loop"
    /\ attempt' = attempt + 1
    /\ sent' = Append(sent, Fitted.messages)
    /\ calling' = "stream"
    /\ UNCHANGED <<messages, maxRetries, context, currentMessages, thrown,
                   raised, streamError>>
    /\ UNCHANGED nonStreamVars

\* streamObject returned the stream: safeStreamObject returns it
StreamReturns ==
    /\ calling = "stream"
    /\ calling' = "returned"
    /\ UNCHANGED <<messages, maxRetries, context, attempt, currentMessages,
                   sent, thrown, raised, streamError>>
    /\ UNCHANGED nonStreamVars

\* the returned stream rejects with this message while the caller of
\* safeStreamObject iterates partialObjectStream: the error is the
\* consumer's, safeStreamObject has returned
ConsumerGetsError(message) ==
    /\ calling = "returned"
    /\ ~InTry(calling)
    /\ streamError' = [id |-> attempt, message |-> message]
    /\ calling' = "consumerFailed"
    /\ UNCHANGED <<messages, maxRetries, context, attempt, currentMessages,
                   sent, thrown, raised>>
    /\ UNCHANGED nonStreamVars

\* streamObject threw an error with this message: the catch block
StreamThrows(message) ==
    LET err == [id |-> attempt, message |-> message]
    IN  /\ InTry(calling)
        /\ thrown' = Append(thrown, err)
        /\ IF GivesUp(err, attempt, maxRetries)
           THEN /\ raised' = Rethrow(err)
                /\ calling' = "raised"
                /\ UNCHANGED currentMessages
           ELSE /\ currentMessages' =
                       IF Fitted.trimmed
                       THEN HardTrimReadme(Fitted.messages)
                       ELSE AggressiveTruncation(Fitted.messages,
                                Plan.maxInput)
                /\ calling' = "loop"
                /\ UNCHANGED raised
        /\ UNCHANGED <<messages, maxRetries, context, attempt, sent,
                       streamError>>
        /\ UNCHANGED nonStreamVars

NextStream ==
    \/ Attempt
    \/ StreamReturns
    \/ \E message \in ErrorMessages : StreamThrows(message)

SpecStream == InitStream /\ [][NextStream]_vars

\* safeStreamObject together with the caller that iterates its stream
NextConsumed ==
    \/ NextStream
    \/ \E message \in ErrorMessages : ConsumerGetsError(message)

SpecConsumed == InitStream /\ [][NextConsumed]_vars

(***************************************************************************)
(* fitMessagesWithinBudget on its own: a caller fits a message list, then  *)
(* fits the result once more with the same budget                          *)
(***************************************************************************)
\* maxInputTokens: below any request, the overhead and two floors of 512
\* tokens, the least a plan gives, and two budgets that the larger
\* requests exceed
FitBudgets == {100, 1324, 4096, 5400, 9000}

InitFit ==
    /\ fitMsgs \in MessageLists
    /\ fitMax \in FitBudgets
    /\ fitOut = <<>>
    /\ StoreIdle
    /\ StreamIdle
    /\ SliceIdle
    /\ BudgetIdle
    /\ ShrinkIdle
    /\ MoreIdle

\* fitMessagesWithinBudget(messages, maxInputTokens)
Fit ==
    /\ fitOut = <<>>
    /\ fitOut' = <<fitMessagesWithinBudget(fitMsgs, fitMax)>>
    /\ UNCHANGED <<fitMsgs, fitMax>>
    /\ UNCHANGED nonFitVars

\* fitMessagesWithinBudget(fitted.messages, maxInputTokens)
Refit ==
    /\ Len(fitOut) = 1
    /\ fitOut' = Append(fitOut,
                    fitMessagesWithinBudget(fitOut[1].messages, fitMax))
    /\ UNCHANGED <<fitMsgs, fitMax>>
    /\ UNCHANGED nonFitVars

NextFit == Fit \/ Refit

SpecFit == InitFit /\ [][NextFit]_vars

(***************************************************************************)
(* headTailSlice on its own                                                *)
(***************************************************************************)
\* texts: empty, shorter than the head floor, between the floors and the
\* marker, with blanks at the cuts, with a sentence and a line break, long
SliceTexts ==
    {<<>>,
     Text(<<Run("x", 5)>>),
     Text(<<Run("x", 33)>>),
     Text(<<Run("x", 130)>>),
     Text(<<Run("x", 200)>>),
     Text(<<Run(" ", 3), Run("x", 90), Run(" ", 10), Run("x", 300),
            Run(" ", 2)>>),
     Text(<<Run("x", 400), Run(".", 1), Run(" ", 1), Run("x", 10)>>),
     Instruction,
     Prose,
     BigPlain}

\* maxTokens: none, below the floors (head 16, tail 8, both 32), at the
\* marker's own size, and above
SliceBudgets == {0, 1, 8, 16, 24, 32, 40, 41, 64, 512, 4096}

InitSlice ==
    /\ sliceText \in SliceTexts
    /\ sliceMax \in SliceBudgets
    /\ sliceOut = <<>>
    /\ StoreIdle
    /\ StreamIdle
    /\ FitIdle
    /\ BudgetIdle
    /\ ShrinkIdle
    /\ MoreIdle

\* headTailSlice(text, maxTokens)
SliceCall ==
    /\ sliceOut = <<>>
    /\ sliceOut' = <<headTailSlice(sliceText, sliceMax)>>
    /\ UNCHANGED <<sliceText, sliceMax>>
    /\ UNCHANGED nonSliceVars

NextSlice == SliceCall

SpecSlice == InitSlice /\ [][NextSlice]_vars

(***************************************************************************)
(* computeCategoryBudget (lib/budget.ts), called for N = 1, 2, ... under   *)
(* one configuration                                                       *)
(***************************************************************************)
MaxRepoCount == 80

\* Math.ceil(Math.sqrt(n))
CeilSqrt(n) == CHOOSE k \in 0..n : k * k >= n /\ \A j \in 0..(k - 1) : j * j < n

\* Math.ceil(Math.pow(n, 0.6)): the least k with k^5 >= n^3
CeilPow06(n) ==
    CHOOSE k \in 0..n :
        /\ k * k * k * k * k >= n * n * n
        /\ \A j \in 0..(k - 1) : j * j * j * j * j < n * n * n

CategoryBudget(min, max, maxNew, splitThreshold) ==
    [min |-> min, max |-> max, maxNew |-> maxNew,
     splitThreshold |-> splitThreshold]

\* computeCategoryBudget(repoCount) under the configured minimum category
\* size and maximum category count
computeCategoryBudget(n0, minSize, maxCats) ==
    LET n == Max2(1, n0)
        sqrt == CeilSqrt(n)
        softMax == CeilPow06(n)
        configuredMax == Max2(8, Min2(160, maxCats))
        min == Max2(2, Min2(minSize, sqrt))
        max == Min2(configuredMax, Max2(sqrt * 2, softMax))
    IN  CategoryBudget(min, max, Max2(16, Min2(120, max * 2)),
                       Max2(6, Min2(12, sqrt + 4)))

\* the values the configuration editor lets through (clamped to 1..10 and
\* 8..200), the defaults 2 and 80 among them
MinCatSizes == {1, 2, 5, 10}

MaxCategoryCaps == {8, 16, 80, 200}

InitBudget ==
    /\ minCatSize \in MinCatSizes
    /\ maxCategories \in MaxCategoryCaps
    /\ repoCount = 0
    /\ budgets = <<>>
    /\ StoreIdle
    /\ StreamIdle
    /\ FitIdle
    /\ SliceIdle
    /\ ShrinkIdle
    /\ MoreIdle

\* computeCategoryBudget(repoCount + 1); the budget before it is kept
ComputeBudget ==
    /\ repoCount < MaxRepoCount
    /\ repoCount' = repoCount + 1
    /\ budgets' =
            (IF budgets = <<>> THEN <<>> ELSE <<budgets[Len(budgets)]>>)
            \o <<computeCategoryBudget(repoCount + 1, minCatSize,
                                       maxCategories)>>
    /\ UNCHANGED <<minCatSize, maxCategories>>
    /\ UNCHANGED nonBudgetVars

NextBudget == ComputeBudget

SpecBudget == InitBudget /\ [][NextBudget]_vars

(***************************************************************************)
(* streamWithAutoShrink (lib/ai.ts).  The recursion is kept as the list    *)
(* of the calls still to run: the group of the running call first, then    *)
(* the second halves that wait for it.                                     *)
(***************************************************************************)
MaxBatch == 4

\* the alternatives of /context|length|token/i
ShrinkSignatures ==
    {<<"c", "o", "n", "t", "e", "x", "t">>,
     <<"l", "e", "n", "g", "t", "h">>,
     <<"t", "o", "k", "e", "n">>}

\* /context|length|token/i.test(String(e?.message))
IsOverflowClass(err) == \E p \in ShrinkSignatures : Contains(err.message, p)

\* a first half that takes one record of the second half too
FirstHalf_Overlapping(group) == SubSeq(group, 1, Len(group) \div 2 + 1)

\* group.slice(0, mid) and group.slice(mid) with mid = floor(length / 2)
FirstHalf(group) == SubSeq(group, 1, Len(group) \div 2)

\* a split that leaves the whole group as its second half
SecondHalf_Whole(group) == group

SecondHalf(group) == SubSeq(group, Len(group) \div 2 + 1, Len(group))

\* a call of processBatch: its group and the error it ended with, if any
BatchCall(group, err) == [group |-> group, err |-> err]

InitShrink ==
    /\ initialBatch \in {[i \in 1..n |-> i] : n \in 1..MaxBatch}
    /\ groups = <<initialBatch>>
    /\ processed = <<>>
    /\ shrinkRaised = NoError
    /\ StoreIdle
    /\ StreamIdle
    /\ FitIdle
    /\ SliceIdle
    /\ BudgetIdle
    /\ MoreIdle

\* processBatch(group) returned and its stream was yielded to the end
ProcessBatchReturns ==
    /\ groups # <<>>
    /\ processed' = Append(processed, BatchCall(Head(groups), NoError))
    /\ groups' = Tail(groups)
    /\ UNCHANGED <<initialBatch, shrinkRaised>>
    /\ UNCHANGED nonShrinkVars

\* processBatch(group) or its stream threw: the catch block
ProcessBatchThrows(message) ==
    LET group == Head(groups)
        err == [id |-> Len(processed) + 1, message |-> message]
    IN  /\ groups # <<>>
        /\ processed' = Append(processed, BatchCall(group, err))
        /\ IF ~IsOverflowClass(err) \/ Len(group) = 1
           THEN /\ shrinkRaised' = err
                /\ groups' = <<>>
           ELSE /\ groups' = <<FirstHalf(group), SecondHalf(group)>>
                                \o Tail(groups)
                /\ UNCHANGED shrinkRaised
        /\ UNCHANGED initialBatch
        /\ UNCHANGED nonShrinkVars

NextShrink ==
    \/ ProcessBatchReturns
    \/ \E message \in ErrorMessages : ProcessBatchThrows(message)

SpecShrink == InitShrink /\ [][NextShrink]_vars

(***************************************************************************)
(* The store engine on its own: a store built by makeStoreFromStreamlined, *)
(* then applyQaFix and backfillCategoriesFromIndex in any order            *)
(***************************************************************************)
\* the Fix that restates the store: its categories as drafts, nothing else
CanonicalFix(st) ==
    [categories |-> [i \in 1..Len(st.categories) |->
                        Draft(st.categories[i].slug, st.categories[i].title,
                              st.categories[i].description,
                              st.categories[i].criteria)],
     aliases |-> <<>>, reassign |-> <<>>, delete |-> <<>>]

InitStore ==
    /\ store = EmptyStore
    /\ phase = "new"
    /\ nfix = 0
    /\ lastFix = NoFix
    /\ preStore = EmptyStore
    /\ merged = NoMerged
    /\ autofilled = {}
    /\ artifacts = {}
    /\ finished = FALSE
    /\ RunIdle
    /\ NonStoreIdle

MakeStore(plan) ==
    /\ phase = "new"
    /\ store' = makeStoreFromStreamlined(plan)
    /\ phase' = "made"
    /\ UNCHANGED nonStoreVars
    /\ UNCHANGED runVars
    /\ UNCHANGED <<nfix, lastFix, preStore, merged, autofilled, artifacts,
                   finished>>

ApplyFix(fix) ==
    /\ phase \in {"made", "ready", "backfilled"}
    /\ store' = applyQaFix(store, fix)
    /\ preStore' = store
    /\ lastFix' = fix
    /\ phase' = "fixed"
    /\ UNCHANGED nonStoreVars
    /\ UNCHANGED runVars
    /\ UNCHANGED <<nfix, merged, autofilled, artifacts, finished>>

\* applyQaFix(store, fix) called once more with the Fix just applied
ReapplyFix ==
    /\ phase = "fixed"
    /\ store' = applyQaFix(store, lastFix)
    /\ preStore' = store
    /\ phase' = "refixed"
    /\ UNCHANGED nonStoreVars
    /\ UNCHANGED runVars
    /\ UNCHANGED <<nfix, lastFix, merged, autofilled, artifacts, finished>>

\* applyQaFix has returned: its Fix and the store it started from are gone
FixReturns ==
    /\ phase \in {"fixed", "refixed"}
    /\ phase' = "ready"
    /\ preStore' = EmptyStore
    /\ lastFix' = NoFix
    /\ UNCHANGED nonStoreVars
    /\ UNCHANGED runVars
    /\ UNCHANGED <<store, nfix, merged, autofilled, artifacts, finished>>

Backfill ==
    /\ phase \in {"made", "fixed", "ready"}
    /\ store' = backfillCategoriesFromIndex(store)
    /\ preStore' = store
    /\ lastFix' = NoFix
    /\ phase' = "backfilled"
    /\ UNCHANGED nonStoreVars
    /\ UNCHANGED runVars
    /\ UNCHANGED <<nfix, merged, autofilled, artifacts, finished>>

NextStore ==
    \/ \E plan \in StreamPlans : MakeStore(plan)
    \/ \E fix \in Fixes \cup {CanonicalFix(store)} : ApplyFix(fix)
    \/ ReapplyFix
    \/ FixReturns
    \/ Backfill

SpecStore == InitStore /\ [][NextStore]_vars

(***************************************************************************)
(* processEverything, Pass 2: fallback and coverage repair                 *)
(***************************************************************************)
\* fallback structure when the Streamline result has no repos
\* c.slug || c.title || fallback
DraftName(c, fallback) ==
    IF c.slug # "" THEN c.slug ELSE IF c.title # "" THEN c.title ELSE fallback

\* all categories / assignments of the plans, in plan order
RECURSIVE PlanCategories(_)
PlanCategories(plans) ==
    IF plans = <<>> THEN <<>>
    ELSE Head(plans).categories \o PlanCategories(Tail(plans))

RECURSIVE PlanAssignments(_)
PlanAssignments(plans) ==
    IF plans = <<>> THEN <<>>
    ELSE Head(plans).assignments \o PlanAssignments(Tail(plans))

\* a catMap that keeps every named draft, whatever its key
CatMapFrom_KeepsAll(cats, out) ==
    LET named == SelectSeq(cats, LAMBDA c : DraftName(c, "") # "")
    IN  out \o [i \in 1..Len(named) |->
                  Draft(cachedSlugify(DraftName(named[i], "")), named[i].title,
                        named[i].description, named[i].criteria)]

\* catMap: the first draft of every key wins and gets the key as its slug
RECURSIVE CatMapFrom(_, _)
CatMapFrom(cats, out) ==
    IF cats = <<>> THEN out
    ELSE LET c == Head(cats)
             key == cachedSlugify(DraftName(c, ""))
         IN  CatMapFrom(Tail(cats),
                IF DraftName(c, "") = "" THEN out
                ELSE IF \E i \in 1..Len(out) : out[i].slug = key THEN out
                ELSE Append(out, Draft(key, c.title, c.description,
                                       c.criteria)))

\* all entries of the plans' summaries, in plan order
RECURSIVE PlanSummaries(_)
PlanSummaries(plans) ==
    IF plans = <<>> THEN <<>>
    ELSE Head(plans).summaries.items \o PlanSummaries(Tail(plans))

\* Array.from(new Set(topics)): the first occurrence of every topic
RECURSIVE Distinct(_, _)
Distinct(topics, out) ==
    IF topics = <<>> THEN out
    ELSE Distinct(Tail(topics),
            IF \E i \in 1..Len(out) : out[i] = Head(topics) THEN out
            ELSE Append(out, Head(topics)))

\* the cap of the merged key_topics
MaxTopics == 12

\* the else branch: the topics seen so far and the new ones, cut to 12
MergeTopics(existing, topics) ==
    LET all == Distinct(existing \o topics, <<>>)
    IN  SubSeq(all, 1, Min2(MaxTopics, Len(all)))

\* summaries: the first entry of an id sets summary and key_topics, a later
\* entry of that id only adds topics
RECURSIVE SummariesFrom(_, _)
SummariesFrom(items, out) ==
    IF items = <<>> THEN out
    ELSE LET e == Head(items)
             at == {i \in 1..Len(out) : out[i].id = e.id}
         IN  SummariesFrom(Tail(items),
                IF at = {} THEN Append(out, e)
                ELSE LET i == CHOOSE j \in at : TRUE
                     IN  [out EXCEPT ![i].key_topics =
                                        MergeTopics(@, e.key_topics)])

\* `for (const s of p.summaries || [])` over summaries that are an object
\* keyed by id, as in a plan that mergeExpandPlans returned: a TypeError
MergeThrows(plans) == \E i \in 1..Len(plans) : ~plans[i].summaries.array

\* the message of that TypeError
NotIterable == "p.summaries is not iterable"

\* the value mergeExpandPlans(plans) returns when it does not throw
mergeExpandPlans(plans) ==
    [categories |-> CatMapFrom(PlanCategories(plans), <<>>),
     assignments |-> PlanAssignments(plans),
     summaries |-> SummaryRecord(SummariesFrom(PlanSummaries(plans), <<>>))]

StreamlineFallback(plan, mg) ==
    IF Len(plan.repos) > 0 THEN plan
    ELSE [categories |-> mg.categories,
          repos |-> [i \in 1..Len(mg.assignments) |->
                        StreamRepo(mg.assignments[i].repo,
                            IF mg.assignments[i].key # ""
                            THEN mg.assignments[i].key ELSE "uncategorized")]]

\* repoFeatures.filter(f => !assigned.has(f.id)), in repoFeatures order
MissingIds(plan) ==
    SelectSeq(RepoIds, LAMBDA id : \A i \in 1..Len(plan.repos) :
                                        plan.repos[i].id # id)

\* the non-empty slugs of the assigned repos, in Map insertion order
RECURSIVE FreqKeys(_, _)
FreqKeys(repos, keys) ==
    IF repos = <<>> THEN keys
    ELSE LET slug == Slugify(Head(repos).primaryCategory)
         IN  FreqKeys(Tail(repos),
                IF slug = "" \/ slug \in Range(keys) THEN keys
                ELSE Append(keys, slug))

FreqCount(repos, slug) ==
    Cardinality({i \in 1..Len(repos) :
                    Slugify(repos[i].primaryCategory) = slug})

\* the first slug, in insertion order, with the strictly largest count
RECURSIVE DominantFrom(_, _, _, _)
DominantFrom(repos, keys, best, bestCount) ==
    IF keys = <<>> THEN best
    ELSE LET n == FreqCount(repos, Head(keys))
         IN  IF n > bestCount
             THEN DominantFrom(repos, Tail(keys), Head(keys), n)
             ELSE DominantFrom(repos, Tail(keys), best, bestCount)

DominantSlug(plan, mg) ==
    LET d == DominantFrom(plan.repos, FreqKeys(plan.repos, <<>>), "", -1)
    IN  IF d = "" /\ Len(mg.categories) > 0
        THEN IF \E i \in 1..Len(mg.categories) :
                    Slugify(DraftName(mg.categories[i], "")) = "libraries"
             THEN "libraries"
             ELSE Slugify(DraftName(mg.categories[1], "libraries"))
        ELSE d

\* mergedAssignIndex[m.id]: the slug of the record's last keyed assignment
MergedAssignSlug(mg, id) ==
    LET hits == {i \in 1..Len(mg.assignments) :
                    /\ mg.assignments[i].repo = id
                    /\ mg.assignments[i].repo # ""
                    /\ mg.assignments[i].key # ""}
    IN  IF hits = {} THEN ""
        ELSE Slugify(mg.assignments[CHOOSE i \in hits :
                                        \A j \in hits : j <= i].key)

InferredCategory(plan, mg, id) ==
    IF MergedAssignSlug(mg, id) # "" THEN MergedAssignSlug(mg, id)
    ELSE IF DominantSlug(plan, mg) # "" THEN DominantSlug(plan, mg)
    ELSE "libraries"

CoverageRepair_NoFill(plan, mg) == plan

\* "Ensure all repositories are assigned": one pushed repo per missing id
CoverageRepair(plan, mg) ==
    LET missing == MissingIds(plan)
    IN  [plan EXCEPT !.repos = @ \o
            [i \in 1..Len(missing) |->
                StreamRepo(missing[i], InferredCategory(plan, mg, missing[i]))]]

(***************************************************************************)
(* processEverything from the Facts pass to onFinish                       *)
(***************************************************************************)
ArtifactFiles == <<"repos.json", "constellator.json", "readme">>

\* the messages of the errors a step of the run may throw
PipelineErrors == {"rate limited", "Request too large"}

\* e.message = `[PASS-n] ${e.message}`
Tagged(tag, message) == "[" \o tag \o "] " \o message

Init ==
    /\ store = EmptyStore
    /\ phase = "pass0"
    /\ nfix = 0
    /\ lastFix = NoFix
    /\ preStore = EmptyStore
    /\ merged = NoMerged
    /\ autofilled = {}
    /\ artifacts = {}
    /\ finished = FALSE
    /\ RunIdle
    /\ NonStoreIdle

\* a step threw and its catch tagged and rethrew the error: the outer catch
\* of processEverything receives it and the run is over
Rethrown(step, tag, message) ==
    /\ threw' = Failure(step, message)
    /\ surfaced' = Failure(step, Tagged(tag, message))
    /\ phase' = "failed"
    /\ UNCHANGED nonStoreVars
    /\ UNCHANGED <<store, nfix, lastFix, preStore, merged, autofilled,
                   artifacts, finished, unrepaired, finalRefined>>

\* a step threw and its catch block is empty: the run goes on at `next`
Swallowed(step, message, next) ==
    /\ threw' = Failure(step, message)
    /\ phase' = next
    /\ UNCHANGED nonStoreVars
    /\ UNCHANGED <<store, nfix, lastFix, preStore, merged, autofilled,
                   artifacts, finished, surfaced>>

\* Pass-0: the facts are grafted into the features
Facts ==
    /\ phase = "pass0"
    /\ phase' = "pass1"
    /\ UNCHANGED nonStoreVars
    /\ threw' = NoFailure
    /\ UNCHANGED <<surfaced, unrepaired, finalRefined>>
    /\ UNCHANGED <<store, nfix, lastFix, preStore, merged, autofilled,
                   artifacts, finished>>

FactsThrows(message) ==
    /\ phase = "pass0"
    /\ Rethrown("Facts", "PASS-0", message)

\* Pass-1: every batch streamed to its end; `plans` are the complete results
Expand(plans) ==
    /\ phase = "pass1"
    /\ merged' = mergeExpandPlans(plans)
    /\ phase' = "pass1b"
    /\ UNCHANGED nonStoreVars
    /\ threw' = NoFailure
    /\ UNCHANGED <<surfaced, unrepaired, finalRefined>>
    /\ UNCHANGED <<store, nfix, lastFix, preStore, autofilled, artifacts,
                   finished>>

ExpandThrows(message) ==
    /\ phase = "pass1"
    /\ Rethrown("Expand", "PASS-1", message)

\* Pass-1b: the Refine stream ended with `refined` as its last partial;
\* mergeExpandPlans([merged, finalRefined]) either returns the new merged
\* or throws into the empty catch block of the pass
Refine(refined) ==
    /\ phase = "pass1b"
    /\ IF MergeThrows(<<merged, refined>>)
       THEN /\ threw' = Failure("Refine", NotIterable)
            /\ UNCHANGED merged
       ELSE /\ threw' = NoFailure
            /\ merged' = mergeExpandPlans(<<merged, refined>>)
    /\ finalRefined' = refined
    /\ phase' = "pass2"
    /\ UNCHANGED nonStoreVars
    /\ UNCHANGED <<surfaced, unrepaired>>
    /\ UNCHANGED <<store, nfix, lastFix, preStore, autofilled, artifacts,
                   finished>>

\* the Refine stream yielded nothing usable
RefineSkipped ==
    /\ phase = "pass1b"
    /\ phase' = "pass2"
    /\ UNCHANGED nonStoreVars
    /\ threw' = NoFailure
    /\ UNCHANGED <<surfaced, unrepaired, finalRefined>>
    /\ UNCHANGED <<store, nfix, lastFix, preStore, merged, autofilled,
                   artifacts, finished>>

\* "Non-fatal: continue with existing merged"
RefineThrows(message) ==
    /\ phase = "pass1b"
    /\ Swallowed("Refine", message, "pass2")
    /\ UNCHANGED <<unrepaired, finalRefined>>

\* the Streamline stream ended with `plan` as its last partial object (a
\* stream that yielded nothing behaves as a plan without repos); the code
\* then runs fallback, coverage repair and makeStoreFromStreamlined
Streamline(plan) ==
    /\ phase = "pass2"
    /\ LET final == StreamlineFallback(plan, merged)
       IN  /\ store' = makeStoreFromStreamlined(CoverageRepair(final, merged))
           /\ autofilled' = Range(MissingIds(final))
           /\ unrepaired' = [categories |-> final.categories,
                             repos |-> final.repos, merged |-> merged]
    /\ phase' = "pass25"
    /\ UNCHANGED nonStoreVars
    /\ threw' = NoFailure
    /\ UNCHANGED <<surfaced, finalRefined>>
    /\ UNCHANGED <<nfix, lastFix, preStore, merged, artifacts, finished>>

StreamlineThrows(message) ==
    /\ phase = "pass2"
    /\ Rethrown("Streamline", "PASS-2", message)

\* the Budget-Consolidate stream ended with `fix` as its last partial object
BudgetConsolidate(fix) ==
    /\ phase = "pass25"
    /\ store' = applyQaFix(store, fix)
    /\ nfix' = nfix + 1
    /\ phase' = "pass3"
    /\ unrepaired' = NoPlanYet
    /\ finalRefined' = NoMerged
    /\ UNCHANGED nonStoreVars
    /\ threw' = NoFailure
    /\ UNCHANGED surfaced
    /\ UNCHANGED <<lastFix, preStore, merged, autofilled, artifacts, finished>>

\* the Budget-Consolidate stream yielded nothing
BudgetSkipped ==
    /\ phase = "pass25"
    /\ phase' = "pass3"
    /\ unrepaired' = NoPlanYet
    /\ finalRefined' = NoMerged
    /\ UNCHANGED nonStoreVars
    /\ threw' = NoFailure
    /\ UNCHANGED surfaced
    /\ UNCHANGED <<store, nfix, lastFix, preStore, merged, autofilled,
                   artifacts, finished>>

\* "proceed regardless"
BudgetThrows(message) ==
    /\ phase = "pass25"
    /\ Swallowed("Budget-Consolidate", message, "pass3")
    /\ unrepaired' = NoPlanYet
    /\ finalRefined' = NoMerged

\* the QA stream ended with `fix`; applyQaFix, then the glossary is saved
QualityAssurance(fix) ==
    /\ phase = "pass3"
    /\ store' = applyQaFix(store, fix)
    /\ nfix' = nfix + 1
    /\ phase' = "glossary"
    /\ UNCHANGED nonStoreVars
    /\ threw' = NoFailure
    /\ UNCHANGED <<surfaced, unrepaired, finalRefined>>
    /\ UNCHANGED <<lastFix, preStore, merged, autofilled, artifacts, finished>>

\* the QA stream threw or ended without a fix, or the glossary save threw
QaThrows(message) ==
    /\ phase \in {"pass3", "glossary"}
    /\ Rethrown("QA", "PASS-3", message)

GlossaryAbsorbed ==
    /\ phase = "glossary"
    /\ store' = backfillCategoriesFromIndex(store)
    /\ phase' = "write"
    /\ UNCHANGED nonStoreVars
    /\ threw' = NoFailure
    /\ UNCHANGED <<surfaced, unrepaired, finalRefined>>
    /\ UNCHANGED <<nfix, lastFix, preStore, merged, autofilled, artifacts,
                   finished>>

\* the artifacts written as soon as the store exists
WriteArtifact_Early ==
    /\ phase \in {"pass3", "write"}
    /\ Cardinality(artifacts) < Len(ArtifactFiles)
    /\ artifacts' = artifacts \cup {ArtifactFiles[Cardinality(artifacts) + 1]}
    /\ threw' = NoFailure
    /\ UNCHANGED <<surfaced, unrepaired, finalRefined>>
    /\ UNCHANGED nonStoreVars
    /\ UNCHANGED <<store, phase, nfix, lastFix, preStore, merged, autofilled,
                   finished>>

\* await fs.writeFile(...) of the next artifact
WriteArtifact ==
    /\ phase = "write"
    /\ Cardinality(artifacts) < Len(ArtifactFiles)
    /\ artifacts' = artifacts \cup {ArtifactFiles[Cardinality(artifacts) + 1]}
    /\ UNCHANGED nonStoreVars
    /\ threw' = NoFailure
    /\ UNCHANGED <<surfaced, unrepaired, finalRefined>>
    /\ UNCHANGED <<store, phase, nfix, lastFix, preStore, merged, autofilled,
                   finished>>

\* fs.mkdir or fs.writeFile rejects: the outer catch gets the error as it is
WriteThrows(message) ==
    /\ phase = "write"
    /\ threw' = Failure("write", message)
    /\ surfaced' = Failure("write", message)
    /\ phase' = "failed"
    /\ UNCHANGED nonStoreVars
    /\ UNCHANGED <<store, nfix, lastFix, preStore, merged, autofilled,
                   artifacts, finished, unrepaired, finalRefined>>

Finish ==
    /\ phase = "write"
    /\ Cardinality(artifacts) = Len(ArtifactFiles)
    /\ finished' = TRUE
    /\ phase' = "complete"
    /\ UNCHANGED nonStoreVars
    /\ threw' = NoFailure
    /\ UNCHANGED <<surfaced, unrepaired, finalRefined>>
    /\ UNCHANGED <<store, nfix, lastFix, preStore, merged, autofilled,
                   artifacts>>

Next ==
    \/ Facts
    \/ \E message \in PipelineErrors : FactsThrows(message)
    \/ \E plans \in ExpandPlanLists : Expand(plans)
    \/ \E message \in PipelineErrors : ExpandThrows(message)
    \/ \E refined \in RefinePlans : Refine(refined)
    \/ RefineSkipped
    \/ \E message \in PipelineErrors : RefineThrows(message)
    \/ \E plan \in StreamPlans : Streamline(plan)
    \/ \E message \in PipelineErrors : StreamlineThrows(message)
    \/ \E fix \in Fixes : BudgetConsolidate(fix)
    \/ BudgetSkipped
    \/ \E message \in PipelineErrors : BudgetThrows(message)
    \/ \E fix \in Fixes : QualityAssurance(fix)
    \/ \E message \in PipelineErrors : QaThrows(message)
    \/ GlossaryAbsorbed
    \/ WriteArtifact
    \/ \E message \in PipelineErrors : WriteThrows(message)
    \/ Finish

Spec == Init /\ [][Next]_vars

(***************************************************************************)
(* Vocabulary of the properties                                            *)
(***************************************************************************)
\* the positions of the categories whose entries contain the record
CategoriesWith(st, id) ==
    {i \in 1..Len(st.categories) :
        \E j \in 1..Len(st.categories[i].repos) :
            st.categories[i].repos[j].id = id}

StoreIds(st) ==
    UNION {{st.categories[i].repos[j].id :
                j \in 1..Len(st.categories[i].repos)} :
           i \in 1..Len(st.categories)}

StoreSlugs(st) == {st.categories[i].slug : i \in 1..Len(st.categories)}

\* the record is an entry of exactly one category, the one with this slug
InOnly(st, id, slug) ==
    /\ Cardinality(CategoriesWith(st, id)) = 1
    /\ \A i \in CategoriesWith(st, id) : st.categories[i].slug = slug

\* what a Fix asks for, read off its fields
FixDeletes(fix) == {Slugify(fix.delete[i]) : i \in 1..Len(fix.delete)}

FixReassigns(fix, id) == \E i \in 1..Len(fix.reassign) : fix.reassign[i].id = id

FixReassignTo(fix, id) ==
    Slugify(fix.reassign[CHOOSE i \in 1..Len(fix.reassign) :
        /\ fix.reassign[i].id = id
        /\ \A j \in (i + 1)..Len(fix.reassign) : fix.reassign[j].id # id
      ].toCategory)

FixAliases(fix, slug) ==
    \E i \in 1..Len(fix.aliases) : Slugify(fix.aliases[i].alias) = slug

FixAliasTo(fix, slug) ==
    Slugify(fix.aliases[CHOOSE i \in 1..Len(fix.aliases) :
        /\ Slugify(fix.aliases[i].alias) = slug
        /\ \A j \in (i + 1)..Len(fix.aliases) :
                Slugify(fix.aliases[j].alias) # slug
      ].target)

\* reassign(slug) ?? alias(slug) ?? slug
FixCategoryTarget(fix, slug) ==
    IF FixReassigns(fix, slug) THEN FixReassignTo(fix, slug)
    ELSE IF FixAliases(fix, slug) THEN FixAliasTo(fix, slug)
    ELSE slug

\* the per-record target if the Fix names the record, else the category's
FixDestination(fix, slug, id) ==
    IF FixReassigns(fix, id) THEN FixReassignTo(fix, id)
    ELSE FixCategoryTarget(fix, slug)

FixCategorySlugs(fix) ==
    {Slugify(DraftName(fix.categories[i], "")) : i \in 1..Len(fix.categories)}

(***************************************************************************)
(* C1: when a pipeline run completes (artifacts written, onFinish called), *)
(* every input record id is a key of store.index and is an entry of        *)
(* exactly one category, whatever the Streamline, Budget-Consolidate and   *)
(* QA passes returned.                                                     *)
(***************************************************************************)
C1_CompleteRunCoversEveryRecord ==
    finished =>
        /\ Cardinality(artifacts) = Len(ArtifactFiles)
        /\ \A id \in Range(RepoIds) :
            /\ id \in IndexKeys(store.index)
            /\ Cardinality(CategoriesWith(store, id)) = 1

\* a completed run in which Streamline omitted a record and both fixes ran
C1_Witness ==
    /\ finished
    /\ autofilled # {}
    /\ nfix = 2

(***************************************************************************)
(* C2: after backfillCategoriesFromIndex, every id of store.index is an    *)
(* entry of exactly one category, and that category's slug is              *)
(* store.index[id].category.                                               *)
(***************************************************************************)
C2_BackfillMakesIndexAndCategoriesAgree ==
    phase = "backfilled" =>
        \A id \in IndexKeys(store.index) :
            InOnly(store, id, IndexGet(store.index, id))

\* Backfill ran on a store where an indexed record was in no category (its
\* category had been deleted) and put it back
C2_Witness ==
    /\ phase = "backfilled"
    /\ \E id \in IndexKeys(preStore.index) :
        /\ CategoriesWith(preStore, id) = {}
        /\ InOnly(store, id, IndexGet(store.index, id))

(***************************************************************************)
(* C3: no two categories of store.categories share a slug, after           *)
(* makeStoreFromStreamlined and after any sequence of applyQaFix and       *)
(* backfillCategoriesFromIndex calls.                                      *)
(***************************************************************************)
C3_SlugsAreUnique ==
    \A i, j \in 1..Len(store.categories) :
        store.categories[i].slug = store.categories[j].slug => i = j

\* two drafts collided on a slug and a fix and a backfill followed
C3_Witness ==
    /\ phase = "backfilled"
    /\ {"web", "web-2"} \subseteq StoreSlugs(preStore)
    /\ Len(store.categories) >= 2

(***************************************************************************)
(* C4: after applyQaFix returns, every category of the store has at least  *)
(* one entry.                                                              *)
(***************************************************************************)
C4_NoEmptyCategoryAfterFix ==
    phase = "fixed" =>
        \A i \in 1..Len(store.categories) : Len(store.categories[i].repos) >= 1

\* the fix listed a category that received no record, and a category that
\* had entries before the fix is gone
C4_Witness ==
    /\ phase = "fixed"
    /\ FixCategorySlugs(lastFix) \ StoreSlugs(store) # {}
    /\ \E i \in 1..Len(preStore.categories) :
        /\ Len(preStore.categories[i].repos) > 0
        /\ preStore.categories[i].slug \notin StoreSlugs(store)
    /\ store.categories # <<>>

(***************************************************************************)
(* C5: applyQaFix loses no record of a surviving category: every entry of  *)
(* a category that the Fix does not delete is, after applyQaFix, in        *)
(* exactly one category, the per-record target if the Fix reassigns its    *)
(* id and the category-level target otherwise; a destination that neither  *)
(* the Fix lists nor a surviving category maps to is a placeholder (title  *)
(* = slug, empty description and criteria); and store.index[id].category   *)
(* is the destination.                                                     *)
(***************************************************************************)
SurvivingTargets(st, fix) ==
    {FixCategoryTarget(fix, st.categories[i].slug) :
        i \in {k \in 1..Len(st.categories) :
                st.categories[k].slug \notin FixDeletes(fix)}}

IsPlaceholder(st, slug) ==
    \A i \in 1..Len(st.categories) :
        st.categories[i].slug = slug =>
            /\ st.categories[i].title = slug
            /\ st.categories[i].description = ""
            /\ st.categories[i].criteria = ""

EntryKept(pre, fix, post, slug, id) ==
    LET dest == FixDestination(fix, slug, id)
    IN  /\ InOnly(post, id, dest)
        /\ id \in IndexKeys(post.index)
        /\ IndexGet(post.index, id) = dest
        /\ dest \notin FixCategorySlugs(fix) \cup SurvivingTargets(pre, fix)
                => IsPlaceholder(post, dest)

C5_NoRecordOfSurvivingCategoryLost ==
    phase = "fixed" =>
        \A i \in 1..Len(preStore.categories) :
            preStore.categories[i].slug \notin FixDeletes(lastFix) =>
                \A j \in 1..Len(preStore.categories[i].repos) :
                    EntryKept(preStore, lastFix, store,
                              preStore.categories[i].slug,
                              preStore.categories[i].repos[j].id)

\* a store lists every record at most once across its categories
NoDuplicateEntries(st) ==
    \A i, k \in 1..Len(st.categories) :
        \A j \in 1..Len(st.categories[i].repos) :
            \A l \in 1..Len(st.categories[k].repos) :
                st.categories[i].repos[j].id = st.categories[k].repos[l].id
                    => (i = k /\ j = l)

\* the same statement from stores that list no record twice
C5_HoldsWithoutDuplicates ==
    (phase = "fixed" /\ NoDuplicateEntries(preStore)) =>
        \A i \in 1..Len(preStore.categories) :
            preStore.categories[i].slug \notin FixDeletes(lastFix) =>
                \A j \in 1..Len(preStore.categories[i].repos) :
                    EntryKept(preStore, lastFix, store,
                              preStore.categories[i].slug,
                              preStore.categories[i].repos[j].id)

(***************************************************************************)
(* C6: if a Fix deletes a category that contains records a and b and       *)
(* gives no reassignment for b, then after applyQaFix b is absent from     *)
(* the store: b is in no category's entries.                               *)
(***************************************************************************)
\* category i of pre holds a and b, holds b nowhere else, and is deleted
DeletedWith(pre, fix, i, a, b) ==
    /\ a # b
    /\ CategoriesWith(pre, a) = {i}
    /\ CategoriesWith(pre, b) = {i}
    /\ pre.categories[i].slug \in FixDeletes(fix)
    /\ ~FixReassigns(fix, b)

Calls == Len(sent)

AllOverflow == \A i \in 1..Len(thrown) : IsCtx(thrown[i])

StreamDone == calling \in {"returned", "raised"}

\* the size fitMessagesWithinBudget estimates for a message list
SentSize(msgs) == SumSeq([i \in 1..Len(msgs) |-> MessageTokens(msgs[i])])

C7_CallsBounded ==
    /\ Calls <= maxRetries + 1
    /\ Len(thrown) <= Calls
    /\ (calling = "raised" /\ AllOverflow) =>
           Calls = maxRetries + 1 /\ Len(thrown) = maxRetries + 1

\* what is left of the loop: the attempts not yet made, counting the one
\* whose call is in progress
C7_Variant ==
    IF StreamDone THEN 0
    ELSE 2 * (maxRetries + 1 - attempt)
         + (IF calling = "stream" THEN 1 ELSE 0)

\* C7: with maxRetries = R a request whose calls all fail with an
\* overflow error is raised on the (R+1)-th failure after exactly R+1
\* calls, no request issues more than R+1 calls, and the loop terminates:
\* every step of the request strictly decreases a natural number.
C7_RetryLoopIsBounded ==
    /\ [](C7_CallsBounded /\ C7_Variant \in Nat)
    /\ [][C7_Variant' < C7_Variant]_vars

C7_Witness ==
    /\ calling = "raised"
    /\ maxRetries = 2
    /\ Calls = 3
    /\ AllOverflow

\* C8: an error that does not match the overflow signature is never
\* retried: it is the last error thrown, it is the error raised to the
\* caller, and no call follows the one that threw it.
C8_NonOverflowErrorIsNeverRetried ==
    \A i \in 1..Len(thrown) :
        ~IsCtx(thrown[i]) =>
            /\ i = Len(thrown)
            /\ calling = "raised"
            /\ raised = thrown[i]
            /\ Calls = i

C8_Witness ==
    /\ calling = "raised"
    /\ maxRetries = 2
    /\ Len(thrown) = 2
    /\ IsCtx(thrown[1])
    /\ ~IsCtx(thrown[2])
    /\ Calls = 2

\* C9: across the retries of one request every call is passed messages
\* of a strictly smaller total estimated size than the call before it.
C9_SentSizesStrictlyShrink ==
    \A k \in 1..(Len(sent) - 1) : SentSize(sent[k + 1]) < SentSize(sent[k])

\* C10: when the retries are used up, the caller receives the very error
\* the last call threw: the same error (not a wrapper) with the same
\* message.
C10_OriginalErrorIsReRaised ==
    (calling = "raised" /\ IsCtx(thrown[Len(thrown)])) =>
        /\ Len(thrown) = maxRetries + 1
        /\ raised = thrown[Len(thrown)]
        /\ raised.id = attempt
        /\ raised.message \in ErrorMessages

C10_Witness ==
    /\ calling = "raised"
    /\ maxRetries >= 1
    /\ Len(thrown) = maxRetries + 1
    /\ IsCtx(thrown[Len(thrown)])
    /\ raised = thrown[Len(thrown)]
    /\ raised.message # <<>>

(***************************************************************************)
(* Properties of the run as a whole                                        *)
(***************************************************************************)
\* the steps of the run that call the inference service
InferenceSteps ==
    {"Facts", "Expand", "Refine", "Streamline", "Budget-Consolidate", "QA"}

\* the names a surfaced error may carry for them
PassNames == {"PASS-0", "PASS-1", "PASS-1B", "PASS-2", "PASS-2.5", "PASS-3"}

\* C11: an exception raised by any inference-bearing step (Facts, Expand,
\* Refine, Streamline, Budget-Consolidate, QA) ends the run, and the error
\* that surfaces is that exception with the name of the pass attached.
C11_PassExceptionIsFatalAndNamed ==
    threw.step \in InferenceSteps =>
        /\ phase = "failed"
        /\ surfaced.step = threw.step
        /\ \E tag \in PassNames :
                surfaced.message = Tagged(tag, threw.message)

\* what does hold: the four passes whose catch rethrows
C11_RethrowingPassesAreFatal ==
    threw.step \in {"Facts", "Expand", "Streamline", "QA"} =>
        /\ phase = "failed"
        /\ surfaced.step = threw.step
        /\ \E tag \in PassNames :
                surfaced.message = Tagged(tag, threw.message)

\* C12: a run that ended with the error of a pass has written no artifact
\* and has not invoked onFinish; an artifact is written only once Backfill
\* has run on the store that came out of all the passes.
C12_NoArtifactAfterPassError ==
    /\ (phase = "failed" /\ surfaced.step \in InferenceSteps) =>
            (artifacts = {} /\ ~finished)
    /\ (artifacts # {} \/ finished) =>
            /\ phase \in {"write", "complete", "failed"}
            /\ surfaced.step \notin InferenceSteps
            /\ nfix >= 1
            /\ store = backfillCategoriesFromIndex(store)
    /\ finished => artifacts = Range(ArtifactFiles)

\* QA threw on a store that Streamline built: nothing was written
C12_Witness ==
    /\ phase = "failed"
    /\ surfaced = Failure("QA", "[PASS-3] rate limited")
    /\ store.categories # <<>>
    /\ artifacts = {}

\* the slugs that the most already-assigned records carry (ties included)
MostFrequentSlugs(repos) ==
    LET keys == Range(FreqKeys(repos, <<>>))
    IN  {k \in keys : \A other \in keys :
                        FreqCount(repos, k) >= FreqCount(repos, other)}

\* the category the Streamline repair is said to give an unassigned record
RepairTargets(plan, mg) ==
    IF MostFrequentSlugs(plan.repos) # {}
    THEN MostFrequentSlugs(plan.repos)
    ELSE IF Len(mg.categories) > 0
    THEN {Slugify(DraftName(mg.categories[1], ""))}
    ELSE {"libraries"}

\* C13: a record that Streamline left unassigned is given the most frequent
\* category among the already-assigned records, or, when no record has
\* been assigned yet, the first proposed (merged) category; after the
\* repair every input id has an assignment.
C13_RepairUsesMostFrequentCategory ==
    phase = "pass25" =>
        /\ \A id \in Range(RepoIds) : id \in IndexKeys(store.index)
        /\ \A id \in autofilled :
                IndexGet(store.index, id) \in
                    RepairTargets(unrepaired, unrepaired.merged)

\* what does hold: after the repair every input id has an assignment
C13_RepairCoversEveryId ==
    phase = "pass25" =>
        \A id \in Range(RepoIds) :
            /\ id \in IndexKeys(store.index)
            /\ CategoriesWith(store, id) # {}

(***************************************************************************)
(* Re-applying a Fix, and the Fix that changes nothing                     *)
(***************************************************************************)
\* C14: applyQaFix is idempotent: for every store and Fix (alias chains,
\* reassignments and deletions included) applying the same Fix a second
\* time leaves the store as the first application left it.
C14_ApplyFixIsIdempotent ==
    phase = "refixed" => store = preStore

\* C15: a Fix whose categories are exactly the store's categories and
\* whose aliases, reassign and delete are empty changes nothing: the set
\* of categories, their entries and the index are as before.
C15_CanonicalFixChangesNothing ==
    (phase = "fixed" /\ lastFix = CanonicalFix(preStore)) =>
        /\ StoreSlugs(store) = StoreSlugs(preStore)
        /\ \A i \in 1..Len(preStore.categories) :
            \E j \in 1..Len(store.categories) :
                /\ store.categories[j].slug = preStore.categories[i].slug
                /\ Range(store.categories[j].repos) =
                        Range(preStore.categories[i].repos)
        /\ store.index = preStore.index

NoEmptyCategory(st) ==
    \A i \in 1..Len(st.categories) : st.categories[i].repos # <<>>

\* the categories, each with its set of entries
CategoryEntries(st) ==
    {[slug |-> st.categories[i].slug, title |-> st.categories[i].title,
      description |-> st.categories[i].description,
      criteria |-> st.categories[i].criteria,
      repos |-> Range(st.categories[i].repos)] :
        i \in 1..Len(st.categories)}

\* what does hold: on a store without empty categories and without a
\* record listed twice, the canonical Fix keeps every category with its
\* fields and entries, and keeps the index
C15_HoldsOnWellFormedStores ==
    (/\ phase = "fixed"
     /\ lastFix = CanonicalFix(preStore)
     /\ NoEmptyCategory(preStore)
     /\ NoDuplicateEntries(preStore)) =>
        /\ CategoryEntries(store) = CategoryEntries(preStore)
        /\ Len(store.categories) = Len(preStore.categories)
        /\ store.index = preStore.index

TotalTokens(msgs) ==
    SumSeq([i \in 1..Len(msgs) |-> MessageTokens(msgs[i])]) + JSON_OVERHEAD

ContentKept(before, after) ==
    \/ after = before
    \/ /\ before.kind = "string"
       /\ after.kind = "string"
       /\ TLen(after.text) < TLen(before.text)
    \/ /\ before.kind = "array"
       /\ after = StringContent(ArrayPlaceholder)

\* C17: fitMessagesWithinBudget never removes a message: the result has as
\* many messages as the input, in the same order and with the same roles,
\* and differs from the input in the text content only.
C17_FitKeepsEveryMessage ==
    \A k \in 1..Len(fitOut) :
        LET before == IF k = 1 THEN fitMsgs ELSE fitOut[1].messages
            after == fitOut[k].messages
        IN  /\ Len(after) = Len(before)
            /\ \A i \in 1..Len(before) :
                /\ after[i].role = before[i].role
                /\ ContentKept(before[i].content, after[i].content)

\* two messages over budget, one of them shortened
C17_Witness ==
    /\ Len(fitOut) = 1
    /\ Len(fitMsgs) = 2
    /\ fitOut[1].trimmed
    /\ \E i \in 1..2 :
        TLen(fitOut[1].messages[i].content.text) <
            TLen(fitMsgs[i].content.text)

(***************************************************************************)
(* Properties of headTailSlice                                             *)
(***************************************************************************)
\* the text holds the marker "\n\n[...content truncated...]\n\n"
HasMarker(t) ==
    \E from \in 0..TLen(t) : Slice(t, from, from + TLen(Marker)) = Marker

\* C18: for every text t and budget b, budgets below the head and tail
\* floors included, estimateTokens(headTailSlice(t, b)) <=
\* estimateTokens(t); the result holds the marker whenever
\* estimateTokens(t) > b, and is t itself when estimateTokens(t) <= b or t
\* is empty.
C18_SliceNeverGrowsAndMarksCuts ==
    sliceOut # <<>> =>
        /\ estimateTokens(sliceOut[1]) <= estimateTokens(sliceText)
        /\ estimateTokens(sliceText) > sliceMax => HasMarker(sliceOut[1])
        /\ (estimateTokens(sliceText) <= sliceMax \/ sliceText = <<>>)
                => sliceOut[1] = sliceText

\* what does hold: the marker and the unchanged-text parts for every
\* budget, and the size part for budgets from 40 on
C18_HoldsFromBudget40 ==
    sliceOut # <<>> =>
        /\ sliceMax >= 40 =>
                estimateTokens(sliceOut[1]) <= estimateTokens(sliceText)
        /\ estimateTokens(sliceText) > sliceMax => HasMarker(sliceOut[1])
        /\ (estimateTokens(sliceText) <= sliceMax \/ sliceText = <<>>)
                => sliceOut[1] = sliceText

(***************************************************************************)
(* Properties of computeCategoryBudget                                     *)
(***************************************************************************)
\* min and max of the budget for N are no smaller than those for N - 1
BudgetsGrow ==
    Len(budgets) = 2 =>
        /\ budgets[1].min <= budgets[2].min
        /\ budgets[1].max <= budgets[2].max

\* C19: computeCategoryBudget(N).min <= computeCategoryBudget(N).max for
\* all N >= 1 under every configured CONSTELLATE_MIN_CAT_SIZE and
\* CONSTELLATE_MAX_CATEGORIES, and min and max never decrease as N grows.
C19_MinAtMostMaxAndMonotone ==
    /\ \A i \in 1..Len(budgets) : budgets[i].min <= budgets[i].max
    /\ BudgetsGrow

\* what does hold: min and max never decrease, and min <= max whenever the
\* configured minimum size is at most the configured maximum count
C19_HoldsWhenMinSizeAtMostCap ==
    /\ minCatSize <= Max2(8, Min2(160, maxCategories)) =>
            \A i \in 1..Len(budgets) : budgets[i].min <= budgets[i].max
    /\ BudgetsGrow

(***************************************************************************)
(* Properties of streamWithAutoShrink                                      *)
(***************************************************************************)
\* the calls a group of this size can still cost: one per node of a full
\* binary tree with a leaf per record
RECURSIVE CallsLeft(_)
CallsLeft(pending) ==
    IF pending = <<>> THEN 0
    ELSE 2 * Len(Head(pending)) - 1 + CallsLeft(Tail(pending))

C20_CallsBounded ==
    /\ Len(processed) + CallsLeft(groups) <= 2 * Len(initialBatch) - 1
    /\ \A i \in 1..Len(groups) : groups[i] # <<>>

\* what a call of processBatch is followed by: after a success the next
\* waiting group; after an overflow-class error on two or more records
\* the first half at floor(size / 2) and then the second half; after any
\* other error, and any error on a single record, that error is raised
C20_SplitOrRaise ==
    processed' # processed =>
        LET call == processed'[Len(processed')]
            size == Len(call.group)
        IN  /\ processed' = Append(processed, call)
            /\ call.group = Head(groups)
            /\ CASE call.err = NoError ->
                        groups' = Tail(groups) /\ shrinkRaised' = NoError
                 [] call.err # NoError /\ IsOverflowClass(call.err)
                        /\ size > 1 ->
                        /\ groups' =
                            <<SubSeq(call.group, 1, size \div 2),
                              SubSeq(call.group, size \div 2 + 1, size)>>
                            \o Tail(groups)
                        /\ shrinkRaised' = NoError
                 [] OTHER ->
                        groups' = <<>> /\ shrinkRaised' = call.err

\* C20: streamWithAutoShrink terminates on a batch of n >= 1 records: an
\* overflow-class error on a group of more than one record splits it at
\* floor(size / 2) into a first half, processed first, and a second half;
\* on a single record the error is raised to the caller; processBatch is
\* called at most 2n - 1 times.  Every step strictly decreases a natural
\* number.
C20_ShrinkTerminatesWithinBound ==
    /\ [](C20_CallsBounded /\ CallsLeft(groups) \in Nat)
    /\ [][CallsLeft(groups)' < CallsLeft(groups)]_vars
    /\ [][C20_SplitOrRaise]_vars

\* every group overflowed down to the single records: 2n - 1 calls, the
\* last of which raised the error of a single record
C20_Witness ==
    /\ Len(initialBatch) = MaxBatch
    /\ Len(processed) = 2 * MaxBatch - 1
    /\ groups = <<>>
    /\ shrinkRaised # NoError
    /\ Len(processed[Len(processed)].group) = 1

(***************************************************************************)
(* The truncation plan cache (lib/budget.ts): calls of makeTruncationPlan  *)
(* that may overlap, since the function awaits loadModelLimits between     *)
(* reading the cache and writing it                                        *)
(***************************************************************************)
MaxPlanCalls == 3

\* a model the gateway describes with a small context, one it prices as a
\* large-context model, and one it does not list
ModelIds == {"small", "large", "unlisted"}

\* the reserveOutput safeStreamObject passes and a smaller one
ReserveOutputs == {DefaultReserveOutput, 1024}

\* CONSTELLATE_DEFAULT_CONTEXT and CONSTELLATE_DEFAULT_OUTPUT
DefaultContext == 128000

DefaultOutput == 8192

\* loadModelLimits(modelId), once the gateway's list is loaded
loadModelLimits(modelId) ==
    CASE modelId = "small" -> [context |-> 6000, output |-> DefaultOutput]
      [] modelId = "large" -> [context |-> 128000, output |-> DefaultOutput]
      [] OTHER -> [context |-> DefaultContext, output |-> DefaultOutput]

\* cacheKey with the reserve left out
CacheKey_ModelOnly(modelId, reserveOutput) == modelId

\* cacheKey
CacheKey(modelId, reserveOutput) == modelId \o ":" \o ToString(reserveOutput)

\* plan, from the limits that were looked up
TruncationPlan(lim, reserveOutput) ==
    [maxInput |-> makeTruncationPlan(lim.context, reserveOutput).maxInput,
     maxOutput |-> lim.output,
     reserveOutput |-> reserveOutput]

\* truncationPlanCache.get(key), as the set of plans stored under key
CacheGet(cache, key) == {e.plan : e \in {x \in cache : x.key = key}}

\* truncationPlanCache.set(key, plan)
CacheSet(cache, key, plan) ==
    {x \in cache : x.key # key} \cup {[key |-> key, plan |-> plan]}

\* the calls with the given arguments that have returned
ReturnedCalls(modelId, reserveOutput) ==
    {i \in 1..Len(planCalls) :
        /\ planCalls[i].modelId = modelId
        /\ planCalls[i].reserveOutput = reserveOutput
        /\ planCalls[i].state = "returned"}

\* the plan of a call that has not returned
PendingPlan == [maxInput |-> 0, maxOutput |-> 0, reserveOutput |-> 0]

InitPlan ==
    /\ planCache = {}
    /\ planCalls = <<>>
    /\ lookups = 0
    /\ CoreIdle
    /\ FactsIdle
    /\ OrderIdle
    /\ MergeIdle

\* makeTruncationPlan(modelId, reserveOutput) up to its return from the
\* cache or to its await of loadModelLimits
PlanCall(modelId, reserveOutput) ==
    /\ Len(planCalls) < MaxPlanCalls
    /\ LET key == CacheKey(modelId, reserveOutput)
           cached == CacheGet(planCache, key)
           call == [modelId |-> modelId, reserveOutput |-> reserveOutput,
                    after |-> ReturnedCalls(modelId, reserveOutput)]
       IN  IF cached # {}
           THEN /\ planCalls' = Append(planCalls,
                    call @@ [state |-> "returned", lookedUp |-> FALSE,
                             plan |-> CHOOSE p \in cached : TRUE])
                /\ lookups' = lookups
           ELSE /\ planCalls' = Append(planCalls,
                    call @@ [state |-> "awaiting", lookedUp |-> TRUE,
                             plan |-> PendingPlan])
                /\ lookups' = lookups + 1
    /\ UNCHANGED <<planCache, nonPlanVars>>

\* loadModelLimits resolved for the i-th call: the plan is computed, stored
\* and returned
PlanResolves(i) ==
    /\ i \in 1..Len(planCalls)
    /\ planCalls[i].state = "awaiting"
    /\ LET c == planCalls[i]
           plan == TruncationPlan(loadModelLimits(c.modelId), c.reserveOutput)
       IN  /\ planCache' = CacheSet(planCache,
                                    CacheKey(c.modelId, c.reserveOutput), plan)
           /\ planCalls' = [planCalls EXCEPT ![i].state = "returned",
                                             ![i].plan = plan]
    /\ UNCHANGED <<lookups, nonPlanVars>>

NextPlan ==
    \/ \E modelId \in ModelIds, reserveOutput \in ReserveOutputs :
          PlanCall(modelId, reserveOutput)
    \/ \E i \in 1..MaxPlanCalls : PlanResolves(i)

SpecPlan == InitPlan /\ [][NextPlan]_vars

\* C21: a call of makeTruncationPlan that starts after a call with the same
\* model and reserve has returned makes no model-limits lookup and returns
\* the plan that call returned; every plan returned for (model, reserve) has
\* that reserve and maxInput = max(4096, context - reserve - 300), whatever
\* other reserves the model was planned with
C21_PlanCachedPerModelAndReserve ==
    /\ \A i \in 1..Len(planCalls) :
          LET c == planCalls[i] IN
          /\ c.after # {} =>
                /\ ~c.lookedUp
                /\ c.state = "returned"
                /\ \A j \in c.after : planCalls[j].plan = c.plan
          /\ c.state = "returned" =>
                /\ c.plan.reserveOutput = c.reserveOutput
                /\ c.plan.maxInput =
                      Max2(4096, loadModelLimits(c.modelId).context
                                    - c.reserveOutput - 300)
    /\ lookups = Cardinality({i \in 1..Len(planCalls) : planCalls[i].lookedUp})

\* one model planned with both reserves, the second reserve after the first
\* plan was cached, and the first key asked again: the two plans differ and
\* the last call is served from the cache
C21_Witness ==
    /\ Len(planCalls) = 3
    /\ planCalls[1].modelId = "small" /\ planCalls[2].modelId = "small"
    /\ planCalls[3].modelId = "small"
    /\ planCalls[1].reserveOutput = DefaultReserveOutput
    /\ planCalls[2].reserveOutput = 1024
    /\ planCalls[3].reserveOutput = DefaultReserveOutput
    /\ planCalls[2].state = "returned"
    /\ planCalls[1].plan.maxInput = 4096
    /\ planCalls[2].plan.maxInput = 4676
    /\ planCalls[3].after = {1}
    /\ lookups = 2

\* the step is a catch block of safeStreamObject that goes on to retry
RetryStep ==
    /\ calling = "stream"
    /\ calling' = "loop"
    /\ Len(thrown') = Len(thrown) + 1

\* C22: the shrink strategy follows the overflow count: the retry after the
\* first overflow of a request halves every content and re-fits to 60% of
\* maxInput, the retry after its second overflow replaces the readme fields
\* by the placeholder
C22_StrategyFollowsOverflowCount ==
    [][RetryStep =>
          /\ Len(thrown) = 0 =>
                currentMessages' =
                    AggressiveTruncation(Fitted.messages, Plan.maxInput)
          /\ Len(thrown) = 1 =>
                currentMessages' = HardTrimReadme(Fitted.messages)]_vars

\* what the code does instead: the strategy follows fitted.trimmed
C22_StrategyFollowsTrimmedFlag ==
    [][RetryStep =>
          currentMessages' =
              IF Fitted.trimmed THEN HardTrimReadme(Fitted.messages)
              ELSE AggressiveTruncation(Fitted.messages, Plan.maxInput)]_vars

\* the first overflow of a request that had to be trimmed to fit
C22_FirstOverflowOfTrimmedRequest ==
    /\ calling = "stream"
    /\ Len(thrown) = 0
    /\ Fitted.trimmed
    /\ HardTrimReadme(Fitted.messages) #
          AggressiveTruncation(Fitted.messages, Plan.maxInput)

\* the second overflow of a request that fits after the first shrink
C22_SecondOverflowOfFittingRequest ==
    /\ calling = "stream"
    /\ Len(thrown) = 1
    /\ ~Fitted.trimmed
    /\ HardTrimReadme(Fitted.messages) #
          AggressiveTruncation(Fitted.messages, Plan.maxInput)

(***************************************************************************)
(* The Facts pass (processEverything Pass-0 over                           *)
(* aiPass0FactsExtractorStreaming): the records are streamed in            *)
(* micro-batches, a micro-batch that overflows is bisected, the loop keeps *)
(* the latest partial and grafts it once the generator is exhausted        *)
(***************************************************************************)
MaxFeatures == 5

\* BATCH_SIZE
BatchSize == 4

\* a record of repoFeatures before the pass
Feature(id) == [id |-> id, facts |-> "", purpose |-> ""]

\* the entry of a stream's result for one record
FactsOf(id) ==
    [id |-> id, facts |-> "facts of " \o ToString(id),
     purpose |-> "purpose of " \o ToString(id)]

\* groups: the ids cut into slices of BATCH_SIZE
MicroBatches(ids) ==
    [i \in 1..((Len(ids) + BatchSize - 1) \div BatchSize) |->
        SubSeq(ids, (i - 1) * BatchSize + 1, Min2(i * BatchSize, Len(ids)))]

\* the partial object a stream over `group` yields as its k-th chunk
PartialResult(group, k) == [results |-> [i \in 1..k |-> FactsOf(group[i])]]

\* graftFactsIntoFeatures(features, factsResult)
graftFactsIntoFeatures(feats, factsResult) ==
    [i \in 1..Len(feats) |->
        LET hits == {j \in 1..Len(factsResult.results) :
                        factsResult.results[j].id = feats[i].id}
        IN  IF hits = {} THEN feats[i]
            ELSE LET last == factsResult.results[CHOOSE j \in hits :
                                                  \A h \in hits : h <= j]
                 IN  [feats[i] EXCEPT !.facts = last.facts,
                                      !.purpose = last.purpose]]

InitFacts ==
    /\ \E n \in 1..MaxFeatures :
          /\ factFeatures = [i \in 1..n |-> Feature(i)]
          /\ factGroups = MicroBatches([i \in 1..n |-> i])
    /\ factChunks = 0
    /\ finalFactsResult = <<>>
    /\ microResults = <<>>
    /\ factsPhase = "streaming"
    /\ CoreIdle
    /\ PlanIdle
    /\ OrderIdle
    /\ MergeIdle

\* one turn of the for-await loop of Pass-0: the open micro-batch stream
\* yields its next partial, and ends after the one that names every record
FactsChunk ==
    /\ factsPhase = "streaming"
    /\ factGroups # <<>>
    /\ LET group == Head(factGroups)
           partial == PartialResult(group, factChunks + 1)
       IN  /\ finalFactsResult' = <<partial>>
           /\ IF factChunks + 1 = Len(group)
              THEN /\ microResults' = Append(microResults, partial)
                   /\ factGroups' = Tail(factGroups)
                   /\ factChunks' = 0
              ELSE /\ factChunks' = factChunks + 1
                   /\ UNCHANGED <<microResults, factGroups>>
    /\ UNCHANGED <<factFeatures, factsPhase, nonFactsVars>>

\* processBatch or the open stream threw: streamWithAutoShrink bisects the
\* group on an overflow-class error, and the pass fails on any other
FactsStreamThrows(message) ==
    /\ factsPhase = "streaming"
    /\ factGroups # <<>>
    /\ LET group == Head(factGroups)
           err == [id |-> 1, message |-> message]
       IN  IF IsOverflowClass(err) /\ Len(group) > 1
           THEN /\ factGroups' = <<FirstHalf(group), SecondHalf(group)>>
                                     \o Tail(factGroups)
                /\ UNCHANGED factsPhase
           ELSE /\ factGroups' = <<>>
                /\ factsPhase' = "failed"
    /\ factChunks' = 0
    /\ UNCHANGED <<factFeatures, finalFactsResult, microResults, nonFactsVars>>

\* the generator is exhausted: the latest partial, if any, is grafted
FactsGraft ==
    /\ factsPhase = "streaming"
    /\ factGroups = <<>>
    /\ factFeatures' =
          IF finalFactsResult # <<>>
          THEN graftFactsIntoFeatures(factFeatures, finalFactsResult[1])
          ELSE factFeatures
    /\ factsPhase' = "grafted"
    /\ UNCHANGED <<factGroups, factChunks, finalFactsResult, microResults,
                   nonFactsVars>>

NextFacts ==
    \/ FactsChunk
    \/ \E message \in ErrorMessages : FactsStreamThrows(message)
    \/ FactsGraft

SpecFacts == InitFacts /\ [][NextFacts]_vars

\* the feature with the given id carries the entry's output
Grafted(entry) ==
    \E i \in 1..Len(factFeatures) :
        /\ factFeatures[i].id = entry.id
        /\ factFeatures[i].facts = entry.facts
        /\ factFeatures[i].purpose = entry.purpose

\* C23: once the Facts pass has completed, every record named in the final
\* result of any micro-batch carries that result's output on its feature
C23_EveryMicroBatchIsGrafted ==
    factsPhase = "grafted" =>
        \A k \in 1..Len(microResults) :
            \A j \in 1..Len(microResults[k].results) :
                Grafted(microResults[k].results[j])

\* what the code does: the records of the micro-batch streamed last carry
\* their output and no other record carries any
C23_OnlyLastMicroBatchIsGrafted ==
    factsPhase = "grafted" =>
        LET last == microResults[Len(microResults)].results
            named == {last[j].id : j \in 1..Len(last)}
        IN  \A i \in 1..Len(factFeatures) :
                IF factFeatures[i].id \in named
                THEN Grafted(FactsOf(factFeatures[i].id))
                ELSE factFeatures[i] = Feature(factFeatures[i].id)

\* a completed pass over more than one micro-batch
C23_SeveralMicroBatches ==
    /\ factsPhase = "grafted"
    /\ Len(microResults) > 1

\* the proposal Streamline starts from (before the pass) or started from
ProposalForStreamline ==
    IF phase = "pass2" THEN merged ELSE unrepaired.merged

\* the Refine result is part of the proposal by the Merge rule: each of its
\* named categories is there under its normalized slug and its assignments
\* are the last of the proposal's
MergedInto(refined, proposal) ==
    /\ \A i \in 1..Len(refined.categories) :
          DraftName(refined.categories[i], "") # "" =>
              \E j \in 1..Len(proposal.categories) :
                  proposal.categories[j].slug =
                      cachedSlugify(DraftName(refined.categories[i], ""))
    /\ Len(proposal.assignments) >= Len(refined.assignments)
    /\ SubSeq(proposal.assignments,
              Len(proposal.assignments) - Len(refined.assignments) + 1,
              Len(proposal.assignments)) = refined.assignments

\* C24: when the Refine stream ended with a result that has categories and
\* assignments, the proposal Streamline works from contains that result
\* merged by the Merge rule: its new categories added, its assignments
\* appended
C24_RefineResultIsMerged ==
    (phase \in {"pass2", "pass25"} /\ finalRefined # NoMerged) =>
        MergedInto(finalRefined, ProposalForStreamline)

\* what the code does: the merge of the Refine result throws into the empty
\* catch block of the pass
C24_RefineMergeThrows ==
    (phase = "pass2" /\ finalRefined # NoMerged) =>
        threw = Failure("Refine", NotIterable)

\* Streamline has run on a proposal that lacks the Refine result
C24_StreamlineWithoutRefineResult ==
    /\ phase = "pass25"
    /\ finalRefined # NoMerged
    /\ ~MergedInto(finalRefined, unrepaired.merged)

\* the record is an entry of the category with this slug
EntryOf(st, id, slug) ==
    \E i \in CategoriesWith(st, id) : st.categories[i].slug = slug

\* C25: a record of a deleted category that the Fix reassigns is preserved:
\* after applyQaFix it is an entry of the reassignment's target and the
\* index names that target
C25_ReassignedRecordOfDeletedCategoryIsKept ==
    phase = "fixed" =>
        \A i \in 1..Len(preStore.categories) :
            preStore.categories[i].slug \in FixDeletes(lastFix) =>
                \A j \in 1..Len(preStore.categories[i].repos) :
                    LET id == preStore.categories[i].repos[j].id
                    IN  FixReassigns(lastFix, id) =>
                            /\ EntryOf(store, id, FixReassignTo(lastFix, id))
                            /\ id \in IndexKeys(store.index)
                            /\ IndexGet(store.index, id) =
                                  FixReassignTo(lastFix, id)

\* what the code does: a record held only by deleted categories is in no
\* category after the Fix, reassigned or not
C25_DeletedCategoryTakesItsRecords ==
    phase = "fixed" =>
        \A id \in StoreIds(preStore) :
            (\A i \in CategoriesWith(preStore, id) :
                preStore.categories[i].slug \in FixDeletes(lastFix))
                => id \notin StoreIds(store)

\* a Fix that deletes a category and reassigns a record held only by it
C25_ReassignedAndDeleted ==
    /\ phase = "fixed"
    /\ \E id \in StoreIds(preStore) :
          /\ FixReassigns(lastFix, id)
          /\ \A i \in CategoriesWith(preStore, id) :
                preStore.categories[i].slug \in FixDeletes(lastFix)
          /\ id \notin StoreIds(store)

\* the records the index knows but no category holds
Dropped(st) == IndexKeys(st.index) \ StoreIds(st)

\* the category of the store with this slug has the title that
\* backfillCategoriesFromIndex derives from the slug
TitledFromSlug(st, slug) ==
    \A i \in 1..Len(st.categories) :
        st.categories[i].slug = slug =>
            st.categories[i].title = TitleCase(slug)

\* applyQaFix keeps every key of the index, and a record it drops with its
\* deleted category keeps the index entry it had, which names a deleted slug
IndexSurvivesFix ==
    phase \in {"fixed", "refixed"} =>
        /\ IndexKeys(preStore.index) \subseteq IndexKeys(store.index)
        /\ \A id \in StoreIds(preStore) \ StoreIds(store) :
              /\ id \in IndexKeys(store.index)
              /\ IndexGet(store.index, id) = IndexGet(preStore.index, id)
              /\ IndexGet(store.index, id) \in FixDeletes(lastFix)

\* Backfill puts every dropped record back into the category its index
\* entry names
BackfillRestoresDropped ==
    phase = "backfilled" =>
        \A id \in Dropped(preStore) :
            EntryOf(store, id, IndexGet(preStore.index, id))

\* C30: applyQaFix never removes a key of store.index; a record dropped with
\* its deleted category keeps its index entry, so that a later
\* backfillCategoriesFromIndex re-creates that category, titled from the
\* slug, with the record in it
C30_DeleteThenBackfillRestores ==
    /\ IndexSurvivesFix
    /\ BackfillRestoresDropped
    /\ phase = "backfilled" =>
          \A id \in Dropped(preStore) :
              TitledFromSlug(store, IndexGet(preStore.index, id))

\* the same with the title stated only for a category the store did not
\* have when Backfill started
C30_RestoresIntoExistingOrNewCategory ==
    /\ IndexSurvivesFix
    /\ BackfillRestoresDropped
    /\ phase = "backfilled" =>
          \A id \in Dropped(preStore) :
              IndexGet(preStore.index, id) \notin StoreSlugs(preStore) =>
                  TitledFromSlug(store, IndexGet(preStore.index, id))

\* Backfill has restored a record that a Fix had dropped, in a category it
\* had to create
C30_Witness ==
    /\ phase = "backfilled"
    /\ \E id \in Dropped(preStore) :
          /\ IndexGet(preStore.index, id) \notin StoreSlugs(preStore)
          /\ EntryOf(store, id, IndexGet(preStore.index, id))

(***************************************************************************)
(* The thread of control of processEverything: which step is entered when, *)
(* and which inference streams are open.  A step with batches (Facts over  *)
(* its micro-batches, Expand over its batches) opens one stream per batch, *)
(* each in a for-await loop that ends with the stream                      *)
(***************************************************************************)
MaxStepBatches == 2

\* the streams the Facts step may open in all, bisections included
MaxFactsStreams == 3

StepOrder ==
    <<"Facts", "Expand", "Merge", "Refine", "Streamline", "MakeStore",
      "Budget", "QA", "Backfill">>

\* the steps that consume an inference stream
StreamingSteps == {"Facts", "Expand", "Refine", "Streamline", "Budget", "QA"}

\* the steps whose catch block rethrows
RethrowingSteps == {"Facts", "Expand", "Streamline", "QA"}

\* the numbers of streams a step may set out to open: one per batch or
\* micro-batch, one for a single call, none for Budget-Consolidate when it
\* has nothing to ask, none for the steps without inference
StepBatches(step) ==
    CASE step \in {"Facts", "Expand"} -> 0..MaxStepBatches
      [] step = "Budget" -> {0, 1}
      [] step \in StreamingSteps -> {1}
      [] OTHER -> {0}

LogEntry(kind, step, open) == [kind |-> kind, step |-> step, open |-> open]

\* the streams still open when the for-await loop over stream id has ended
\* without leaving it open
ForAwaitEnds_LeavesOpen(streams, id) == streams

\* the streams still open when the for-await loop over stream id has ended
ForAwaitEnds(streams, id) == streams \ {id}

InitOrder ==
    /\ orderAt = 1
    /\ orderPc = "enter"
    /\ orderLog = <<>>
    /\ openStreams = {}
    /\ batchesLeft = 0
    /\ CoreIdle
    /\ PlanIdle
    /\ FactsIdle
    /\ MergeIdle

\* the run reaches the step: its batches are cut
EnterStep ==
    /\ orderPc = "enter"
    /\ orderLog' = Append(orderLog,
          LogEntry("step", StepOrder[orderAt], Cardinality(openStreams)))
    /\ batchesLeft' \in StepBatches(StepOrder[orderAt])
    /\ orderPc' = "ready"
    /\ UNCHANGED <<orderAt, openStreams, nonOrderVars>>

\* the call for the next batch: its stream is opened and its loop entered
OpenStream ==
    /\ orderPc = "ready"
    /\ batchesLeft > 0
    /\ orderLog' = Append(orderLog,
          LogEntry("stream", StepOrder[orderAt], Cardinality(openStreams)))
    /\ openStreams' = openStreams \cup {Len(orderLog) + 1}
    /\ orderPc' = "streaming"
    /\ UNCHANGED <<orderAt, batchesLeft, nonOrderVars>>

\* the step has no batch left: the run goes on to the next step, and past
\* Backfill to the writing of the artifacts
LeaveStep ==
    /\ orderAt' = orderAt + 1
    /\ orderPc' = IF orderAt = Len(StepOrder) THEN "write" ELSE "enter"
    /\ batchesLeft' = 0

StepDone ==
    /\ orderPc = "ready"
    /\ batchesLeft = 0
    /\ LeaveStep
    /\ UNCHANGED <<orderLog, openStreams, nonOrderVars>>

\* the open stream is exhausted and its for-await loop ends
StreamExhausted ==
    /\ orderPc = "streaming"
    /\ openStreams' = ForAwaitEnds(openStreams, Len(orderLog))
    /\ batchesLeft' = batchesLeft - 1
    /\ orderPc' = "ready"
    /\ UNCHANGED <<orderAt, orderLog, nonOrderVars>>

\* the open stream of a Facts micro-batch threw an overflow-class error and
\* streamWithAutoShrink goes on with the two halves of the group
FactsBisects ==
    /\ orderPc = "streaming"
    /\ StepOrder[orderAt] = "Facts"
    /\ Cardinality({i \in 1..Len(orderLog) : orderLog[i].kind = "stream"})
          < MaxFactsStreams
    /\ openStreams' = ForAwaitEnds(openStreams, Len(orderLog))
    /\ batchesLeft' = batchesLeft + 1
    /\ orderPc' = "ready"
    /\ UNCHANGED <<orderAt, orderLog, nonOrderVars>>

\* the open stream threw: the step's catch block rethrows and the run ends,
\* or (Refine, Budget-Consolidate) it is empty and the run goes on
StreamFails ==
    /\ orderPc = "streaming"
    /\ openStreams' = ForAwaitEnds(openStreams, Len(orderLog))
    /\ IF StepOrder[orderAt] \in RethrowingSteps
       THEN /\ orderPc' = "failed"
            /\ UNCHANGED <<orderAt, batchesLeft>>
       ELSE LeaveStep
    /\ UNCHANGED <<orderLog, nonOrderVars>>

NextOrder ==
    \/ EnterStep
    \/ OpenStream
    \/ StepDone
    \/ StreamExhausted
    \/ FactsBisects
    \/ StreamFails

SpecOrder == InitOrder /\ [][NextOrder]_vars

\* the position of a step in the order of the run
StepRank(step) == CHOOSE r \in 1..Len(StepOrder) : StepOrder[r] = step

\* the steps entered so far, in order of entry
StepsEntered == SelectSeq(orderLog, LAMBDA e : e.kind = "step")

\* C26: the steps of a run are entered in the order Facts, Expand, Merge,
\* Refine, Streamline, store construction, Budget-Consolidate, QA, Backfill;
\* no step is entered and no stream (of a batch or of a step) is opened
\* while a stream is open, so that no two streams are ever open at once
C26_StepsInOrderOneStreamAtATime ==
    /\ Cardinality(openStreams) <= 1
    /\ \A i \in 1..Len(orderLog) : orderLog[i].open = 0
    /\ \A i \in 1..Len(StepsEntered) : StepsEntered[i].step = StepOrder[i]
    /\ \A i \in 1..Len(orderLog) :
          orderLog[i].kind = "stream" =>
              /\ orderLog[i].step \in StreamingSteps
              /\ \E j \in 1..(i - 1) :
                    /\ orderLog[j] = LogEntry("step", orderLog[i].step, 0)
                    /\ \A k \in (j + 1)..(i - 1) : orderLog[k].kind = "stream"

\* a run that went through every step, with two Expand batches and a
\* bisected Facts micro-batch, every stream opened after the one before it
\* had ended
C26_Witness ==
    /\ orderPc = "write"
    /\ Len(StepsEntered) = Len(StepOrder)
    /\ Cardinality({i \in 1..Len(orderLog) :
           orderLog[i] = LogEntry("stream", "Expand", 0)}) = 2
    /\ Cardinality({i \in 1..Len(orderLog) :
           orderLog[i] = LogEntry("stream", "Facts", 0)}) = 3
    /\ \E i \in 1..Len(orderLog) : orderLog[i] = LogEntry("stream", "Budget", 0)

(***************************************************************************)
(* mergeExpandPlans on its own: a caller merges a list of inference        *)
(* results and may then merge the returned value with one more result, as  *)
(* the Refine pass does                                                    *)
(***************************************************************************)
MaxPlans == 3

\* key_topics lists: topics lo..hi
Topics(lo, hi) == [i \in 1..(hi - lo + 1) |-> lo + i - 1]

\* inference results: slugs that collide after normalization ("Tools",
\* "tools"), a draft without slug and title, a blank title, records
\* summarized by several plans, with and without summary text, and topic
\* lists of up to the 10 the schema allows
PlanPool ==
    {ExpandPlanPlus(<<Draft("", "Tools", "dev tools", "is a tool")>>,
                    <<Assignment("a", "Tools")>>,
                    <<Summary("a", "", Topics(1, 2))>>),
     ExpandPlanPlus(<<Draft("tools", "Misc", "other", ""),
                      Draft("", "Libraries", "", "")>>,
                    <<Assignment("b", "Web"), Assignment("a", "")>>,
                    <<Summary("a", "a command line tool", Topics(2, 3)),
                      Summary("b", "a web framework", <<>>)>>),
     ExpandPlanPlus(<<Draft("", "", "", ""), Draft("", " ", "blank", "")>>,
                    <<>>,
                    <<Summary("b", "a site generator", Topics(1, 10))>>),
     ExpandPlanPlus(<<Draft("", "Libraries", "packages", "is imported")>>,
                    <<Assignment("b", "Libraries")>>,
                    <<Summary("b", "", Topics(4, 13))>>),
     ExpandPlanPlus(<<>>, <<>>, <<>>)}

InitMerge ==
    /\ mergeIn \in SeqsUpTo(PlanPool, MaxPlans)
    /\ mergeOut = NoMerged
    /\ mergeState = "called"
    /\ CoreIdle
    /\ PlanIdle
    /\ FactsIdle
    /\ OrderIdle

\* mergeExpandPlans(plans) on inference results
MergeCall ==
    /\ mergeState = "called"
    /\ IF MergeThrows(mergeIn)
       THEN mergeState' = "threw" /\ UNCHANGED mergeOut
       ELSE mergeState' = "returned" /\ mergeOut' = mergeExpandPlans(mergeIn)
    /\ UNCHANGED <<mergeIn, nonMergeVars>>

\* mergeExpandPlans([merged, finalRefined]) on the value just returned
MergeAgain(refined) ==
    /\ mergeState = "returned"
    /\ mergeIn' = <<mergeOut, refined>>
    /\ IF MergeThrows(<<mergeOut, refined>>)
       THEN mergeState' = "threw" /\ UNCHANGED mergeOut
       ELSE /\ mergeState' = "returned"
            /\ mergeOut' = mergeExpandPlans(<<mergeOut, refined>>)
    /\ UNCHANGED nonMergeVars

NextMerge ==
    \/ MergeCall
    \/ \E refined \in PlanPool : MergeAgain(refined)

SpecMerge == InitMerge /\ [][NextMerge]_vars

\* the drafts of the plans that have a slug or a title, in plan order
NamedDrafts(plans) ==
    SelectSeq(PlanCategories(plans), LAMBDA c : c.slug # "" \/ c.title # "")

\* slugify(c.slug || c.title)
DraftKey(c) == cachedSlugify(IF c.slug # "" THEN c.slug ELSE c.title)

\* the number of assignments of the first n plans
RECURSIVE AssignmentsBefore(_, _)
AssignmentsBefore(plans, n) ==
    IF n = 0 THEN 0
    ELSE AssignmentsBefore(plans, n - 1) + Len(plans[n].assignments)

\* C27: mergeExpandPlans returns categories with pairwise distinct
\* normalized slugs, one for every slug of a named draft, each with the
\* title, description and criteria of the first draft of that slug in plan
\* order; its assignments are the plans' assignments one plan after the
\* other, as many as the plans have together
C27_FirstDraftWinsAssignmentsConcatenated ==
    mergeState = "returned" =>
        LET drafts == NamedDrafts(mergeIn)
            cats == mergeOut.categories
        IN  /\ \A i, j \in 1..Len(cats) : cats[i].slug = cats[j].slug => i = j
            /\ {cats[i].slug : i \in 1..Len(cats)} =
                  {DraftKey(drafts[k]) : k \in 1..Len(drafts)}
            /\ \A i \in 1..Len(cats) :
                  LET k == CHOOSE k \in 1..Len(drafts) :
                              /\ DraftKey(drafts[k]) = cats[i].slug
                              /\ \A h \in 1..(k - 1) :
                                    DraftKey(drafts[h]) # cats[i].slug
                  IN  /\ cats[i].title = drafts[k].title
                      /\ cats[i].description = drafts[k].description
                      /\ cats[i].criteria = drafts[k].criteria
            /\ Len(mergeOut.assignments) =
                  AssignmentsBefore(mergeIn, Len(mergeIn))
            /\ \A n \in 1..Len(mergeIn) :
                  \A k \in 1..Len(mergeIn[n].assignments) :
                      mergeOut.assignments[AssignmentsBefore(mergeIn, n - 1) + k]
                          = mergeIn[n].assignments[k]

\* three plans were merged: two drafts collide on "tools" and the first of
\* them gave the category its title, and the assignments of the plans
\* follow one another
C27_Witness ==
    /\ mergeState = "returned"
    /\ Len(mergeIn) = 3
    /\ \E i \in 1..Len(mergeOut.categories) :
          /\ mergeOut.categories[i].slug = "tools"
          /\ mergeOut.categories[i].title = "Misc"
    /\ \E k \in 1..Len(NamedDrafts(mergeIn)) :
          /\ NamedDrafts(mergeIn)[k].title = "Tools"
          /\ DraftKey(NamedDrafts(mergeIn)[k]) = "tools"
    /\ Len(mergeOut.assignments) = 4

\* the entries of the plans' summaries for one record, in plan order
EntriesOf(plans, id) ==
    SelectSeq(PlanSummaries(plans), LAMBDA e : e.id = id)

\* the first non-empty summary among the entries, "" when all are empty
FirstNonEmpty(entries) ==
    IF \A k \in 1..Len(entries) : entries[k].summary = "" THEN ""
    ELSE entries[CHOOSE k \in 1..Len(entries) :
                    /\ entries[k].summary # ""
                    /\ \A h \in 1..(k - 1) : entries[h].summary = ""].summary

AllTopics(entries) ==
    UNION {Range(entries[k].key_topics) : k \in 1..Len(entries)}

\* C28: for every record the merged summary is the first non-empty summary
\* among the plans' entries for it, an earlier empty one notwithstanding,
\* and the merged key_topics are the union of the entries' topics, cut to
\* at most 12
C28_FirstNonEmptySummaryWins ==
    mergeState = "returned" =>
        \A i \in 1..Len(mergeOut.summaries.items) :
            LET s == mergeOut.summaries.items[i]
                entries == EntriesOf(mergeIn, s.id)
            IN  /\ s.summary = FirstNonEmpty(entries)
                /\ Len(s.key_topics) <= MaxTopics
                /\ Range(s.key_topics) \subseteq AllTopics(entries)
                /\ Cardinality(AllTopics(entries)) <= MaxTopics =>
                      Range(s.key_topics) = AllTopics(entries)
                /\ Cardinality(AllTopics(entries)) > MaxTopics =>
                      Cardinality(Range(s.key_topics)) = MaxTopics

\* what the code does: the first entry of a record sets its summary, empty
\* or not; the topics are as the claim says
C28_FirstEntryWins ==
    mergeState = "returned" =>
        \A i \in 1..Len(mergeOut.summaries.items) :
            LET s == mergeOut.summaries.items[i]
                entries == EntriesOf(mergeIn, s.id)
            IN  /\ s.summary = entries[1].summary
                /\ Len(s.key_topics) <= MaxTopics
                /\ Range(s.key_topics) \subseteq AllTopics(entries)
                /\ Cardinality(AllTopics(entries)) <= MaxTopics =>
                      Range(s.key_topics) = AllTopics(entries)
                /\ Cardinality(AllTopics(entries)) > MaxTopics =>
                      Cardinality(Range(s.key_topics)) = MaxTopics

\* an empty first summary has kept a later non-empty one out
C28_EmptySummaryBlocks ==
    /\ mergeState = "returned"
    /\ \E i \in 1..Len(mergeOut.summaries.items) :
          /\ mergeOut.summaries.items[i].summary = ""
          /\ FirstNonEmpty(EntriesOf(mergeIn,
                 mergeOut.summaries.items[i].id)) # ""

\* the union of a record's topics was cut to 12
C28_TopicsCut ==
    /\ mergeState = "returned"
    /\ \E i \in 1..Len(mergeOut.summaries.items) :
          /\ Len(mergeOut.summaries.items[i].key_topics) = MaxTopics
          /\ Cardinality(AllTopics(EntriesOf(mergeIn,
                 mergeOut.summaries.items[i].id))) > MaxTopics

(***************************************************************************)
(* The order and the early stop of fitMessagesWithinBudget                 *)
(***************************************************************************)
\* the turn of a role: user messages, then system messages, then the rest
RoleTurn(role) ==
    CASE role = "user" -> 1
      [] role = "system" -> 2
      [] OTHER -> 3

\* message j has its turn before message i: an earlier role, or the same
\* role and more tokens (the earlier of two equal ones first)
TurnBefore(msgs, j, i) ==
    \/ RoleTurn(msgs[j].role) < RoleTurn(msgs[i].role)
    \/ /\ RoleTurn(msgs[j].role) = RoleTurn(msgs[i].role)
       /\ \/ MessageTokens(msgs[j]) > MessageTokens(msgs[i])
          \/ /\ MessageTokens(msgs[j]) = MessageTokens(msgs[i])
             /\ j < i

\* message i of the request came back with a shorter text
Shortened(before, after, i) ==
    /\ before[i].content.kind = "string"
    /\ after[i].content.kind = "string"
    /\ TLen(after[i].content.text) < TLen(before[i].content.text)

\* what message j counts for once its turn is over
TokensAfterTurn(before, after, j) ==
    IF Shortened(before, after, j)
    THEN estimateTokens(after[j].content.text)
    ELSE MessageTokens(before[j])

\* the running total when the turn of message i comes
RunningTotalAt(before, after, i) ==
    SumSeq([j \in 1..Len(before) |->
               IF TurnBefore(before, j, i)
               THEN TokensAfterTurn(before, after, j)
               ELSE MessageTokens(before[j])]) + JSON_OVERHEAD

\* the slicer leaves message j alone at the target of its turn
LeftAloneAtTurn(before, after, j, maxInputTokens) ==
    LET text == CloneMessage(before[j]).content.text
        available == maxInputTokens
                       - (RunningTotalAt(before, after, j)
                            - MessageTokens(before[j]))
        target == Max2(512, (available * 6) \div 10)
    IN  headTailSlice(text, target) = text

\* C29: fitMessagesWithinBudget trims in priority order and stops early:
\* a request whose total with the overhead is within the budget comes back
\* unchanged with trimmed = false; otherwise a message is shortened only
\* if the running total still exceeds the budget when its turn comes, and
\* only if every message whose turn is earlier (user before system before
\* the other roles, larger first within a role) was shortened or could
\* not be, so that a system message changes only when shortening the user
\* messages did not satisfy the budget.
C29_TrimsInPriorityOrderAndStopsEarly ==
    Len(fitOut) >= 1 =>
        LET after == fitOut[1].messages
        IN  IF TotalTokens(fitMsgs) <= fitMax
            THEN after = fitMsgs /\ ~fitOut[1].trimmed
            ELSE \A i \in 1..Len(fitMsgs) :
                    Shortened(fitMsgs, after, i) =>
                        /\ RunningTotalAt(fitMsgs, after, i) > fitMax
                        /\ \A j \in 1..Len(fitMsgs) :
                            TurnBefore(fitMsgs, j, i) =>
                                \/ Shortened(fitMsgs, after, j)
                                \/ LeftAloneAtTurn(fitMsgs, after, j, fitMax)

\* a system message ahead of a user message in the request: the user
\* message was shortened, which satisfied the budget, and the system
\* message, as large, came back as it was
C29_UserShortenedSystemKept ==
    /\ Len(fitOut) = 1
    /\ Len(fitMsgs) = 2
    /\ fitMsgs[1].role = "system"
    /\ fitMsgs[2].role = "user"
    /\ MessageTokens(fitMsgs[1]) > 512
    /\ TotalTokens(fitMsgs) > fitMax
    /\ Shortened(fitMsgs, fitOut[1].messages, 2)
    /\ fitOut[1].messages[1] = fitMsgs[1]
    /\ RunningTotalAt(fitMsgs, fitOut[1].messages, 1) <= fitMax

(***************************************************************************)
(* The trimmed flag of fitMessagesWithinBudget                             *)
(***************************************************************************)
\* C36: fitMessagesWithinBudget reports trimmed = false only if it changed
\* nothing: whenever the flag is false, the content of every returned
\* message is the content of the corresponding input message, array
\* contents included.
C36_UntrimmedMeansUnchanged ==
    Len(fitOut) >= 1 =>
        (~fitOut[1].trimmed =>
            /\ Len(fitOut[1].messages) = Len(fitMsgs)
            /\ \A i \in 1..Len(fitMsgs) :
                fitOut[1].messages[i].content = fitMsgs[i].content)

\* the same for the messages whose content is a string
C36_UntrimmedStringsUnchanged ==
    Len(fitOut) >= 1 =>
        (~fitOut[1].trimmed =>
            \A i \in 1..Len(fitMsgs) :
                fitMsgs[i].content.kind = "string" =>
                    fitOut[1].messages[i].content = fitMsgs[i].content)

\* a request over budget comes back with trimmed = false and an array
\* content replaced by the placeholder
C36_PlaceholderWithoutTrimmed ==
    /\ Len(fitOut) = 1
    /\ ~fitOut[1].trimmed
    /\ TotalTokens(fitMsgs) > fitMax
    /\ \E i \in 1..Len(fitMsgs) :
        /\ fitMsgs[i].content.kind = "array"
        /\ fitOut[1].messages[i].content = StringContent(ArrayPlaceholder)

(***************************************************************************)
(* fitMessagesWithinBudget reaches a budget that the floor allows          *)
(***************************************************************************)
\* every message of the request has a string content
AllStrings(msgs) == \A i \in 1..Len(msgs) : msgs[i].content.kind = "string"

\* sum(estimateTokens(content)) + 300
EstimatedTotal(msgs) ==
    SumSeq([i \in 1..Len(msgs) |-> estimateTokens(msgs[i].content.text)])
        + 300

\* C37: fitMessagesWithinBudget reaches the budget whenever the floor of
\* 512 tokens per message allows it: for n messages with string content
\* and maxInputTokens >= 300 + 512 * n, the estimated tokens of the
\* returned messages plus 300 are within maxInputTokens.
C37_BudgetReachedAboveFloor ==
    Len(fitOut) >= 1 =>
        (AllStrings(fitMsgs) /\ fitMax >= 300 + 512 * Len(fitMsgs) =>
            EstimatedTotal(fitOut[1].messages) <= fitMax)

\* two large messages and a budget of exactly the overhead and two floors:
\* both are cut to the floor and the budget is met with nothing to spare
C37_Witness ==
    /\ Len(fitOut) = 1
    /\ Len(fitMsgs) = 2
    /\ AllStrings(fitMsgs)
    /\ fitMax = 300 + 512 * 2
    /\ \A i \in 1..2 : Shortened(fitMsgs, fitOut[1].messages, i)
    /\ EstimatedTotal(fitOut[1].messages) = fitMax

(***************************************************************************)
(* Aliases are resolved one hop at a time                                  *)
(***************************************************************************)
\* the Fix has an entry of fix.reassign for the record or for the slug of
\* its category
Overridden(fix, slug, id) == FixReassigns(fix, id) \/ FixReassigns(fix, slug)

\* the Fix aliases a to b and b to c, and the store has the categories a
\* and b, which the Fix does not delete
AliasChain(st, fix, a) ==
    /\ FixAliases(fix, a)
    /\ FixAliasTo(fix, a) # a
    /\ FixAliases(fix, FixAliasTo(fix, a))
    /\ {a, FixAliasTo(fix, a)} \subseteq StoreSlugs(st)
    /\ {a, FixAliasTo(fix, a)} \cap FixDeletes(fix) = {}

\* the records of a are in b and not in c, the records of b are in c
OneHop(pre, fix, post, a) ==
    LET b == FixAliasTo(fix, a)
        c == FixAliasTo(fix, b)
    IN  \A id \in StoreIds(pre) :
            /\ (EntryOf(pre, id, a) /\ ~Overridden(fix, a, id)) =>
                    /\ EntryOf(post, id, b)
                    /\ c # b => ~EntryOf(post, id, c)
            /\ (EntryOf(pre, id, b) /\ ~Overridden(fix, b, id)) =>
                    EntryOf(post, id, c)

\* C38: applyQaFix resolves aliases in a single step, never transitively:
\* with aliases a -> b and b -> c and existing categories a and b, after
\* one applyQaFix the records of a are in category b and not in c, and the
\* records of b are in category c, unless a reassignment overrides them.
C38_AliasesResolveOneHop ==
    phase = "fixed" =>
        \A a \in StoreSlugs(preStore) :
            AliasChain(preStore, lastFix, a) =>
                OneHop(preStore, lastFix, store, a)

\* the same statement from stores that list no record twice
C38_HoldsWithoutDuplicates ==
    (phase = "fixed" /\ NoDuplicateEntries(preStore)) =>
        \A a \in StoreSlugs(preStore) :
            AliasChain(preStore, lastFix, a) =>
                OneHop(preStore, lastFix, store, a)

\* a chain applied to a store with a record in each of a and b: the record
\* of a is in b, the record of b is in c
C38_ChainApplied ==
    /\ phase = "fixed"
    /\ NoDuplicateEntries(preStore)
    /\ \E a \in StoreSlugs(preStore) :
        /\ AliasChain(preStore, lastFix, a)
        /\ \E x, y \in StoreIds(preStore) :
            /\ x # y
            /\ EntryOf(preStore, x, a)
            /\ EntryOf(preStore, y, FixAliasTo(lastFix, a))
            /\ ~Overridden(lastFix, a, x)
            /\ ~Overridden(lastFix, FixAliasTo(lastFix, a), y)
            /\ EntryOf(store, x, FixAliasTo(lastFix, a))
            /\ EntryOf(store, y, FixAliasTo(lastFix, FixAliasTo(lastFix, a)))

\* a record listed under both a and b ends in both b and c
C38_DuplicateReachesBoth ==
    /\ phase = "fixed"
    /\ \E a \in StoreSlugs(preStore) :
        /\ AliasChain(preStore, lastFix, a)
        /\ \E x \in StoreIds(preStore) :
            /\ EntryOf(preStore, x, a)
            /\ EntryOf(preStore, x, FixAliasTo(lastFix, a))
            /\ ~Overridden(lastFix, a, x)
            /\ EntryOf(store, x, FixAliasTo(lastFix, a))
            /\ EntryOf(store, x, FixAliasTo(lastFix, FixAliasTo(lastFix, a)))

(***************************************************************************)
(* Index and categories after makeStoreFromStreamlined and applyQaFix      *)
(***************************************************************************)
\* every indexed id is an entry of exactly one category, the indexed one
IndexAgrees(st) ==
    \A id \in IndexKeys(st.index) :
        InOnly(st, id, IndexGet(st.index, id))

\* C34: after makeStoreFromStreamlined, for any Streamline output, also
\* one that lists a record id more than once with different primary
\* categories, every id of store.index is an entry of exactly one category
\* and that category's slug is store.index[id].category; the same holds
\* after each later applyQaFix.
C34_IndexedIdInExactlyItsCategory ==
    phase \in {"made", "fixed", "refixed"} => IndexAgrees(store)

\* the same statement for the store makeStoreFromStreamlined builds from
\* an output that lists no record twice
C34_HoldsForOutputsWithoutRepeats ==
    (phase = "made" /\ NoDuplicateEntries(store)) => IndexAgrees(store)

\* makeStoreFromStreamlined has listed a record under two categories
C34_RecordListedTwice ==
    /\ phase = "made"
    /\ \E id \in IndexKeys(store.index) :
        Cardinality(CategoriesWith(store, id)) = 2

(***************************************************************************)
(* Ids of the final store                                                  *)
(***************************************************************************)
\* C35: when a pipeline run completes, store.index has no key other than
\* input record ids, and no category has an entry with another id: an id
\* of the Streamline result that names no input record never reaches the
\* final store.
C35_FinalStoreHoldsInputIdsOnly ==
    phase = "complete" =>
        /\ IndexKeys(store.index) \subseteq Range(RepoIds)
        /\ StoreIds(store) \subseteq Range(RepoIds)

\* every id of the final store is an input id or an id Streamline returned
C35_FinalIdsComeFromInputOrStreamline ==
    phase = "complete" =>
        IndexKeys(store.index) \cup StoreIds(store)
            \subseteq Range(RepoIds) \cup ForeignIds

\* a run has completed with a foreign id indexed and listed in a category
C35_ForeignIdInFinalStore ==
    /\ phase = "complete"
    /\ \E id \in ForeignIds :
        /\ id \in IndexKeys(store.index)
        /\ id \in StoreIds(store)

(***************************************************************************)
(* backfillCategoriesFromIndex rebuilds the entries from the index         *)
(***************************************************************************)
\* the slugs the index names
IndexedSlugs(index) == {IndexGet(index, id) : id \in IndexKeys(index)}

\* C39: backfillCategoriesFromIndex leaves store.index unchanged, with the
\* same keys and the same category values, and rebuilds the entries
\* strictly from it: after Backfill the record ids across all categories
\* are the keys of store.index, each under the category the index names,
\* and a category with no indexed record is dropped.
C39_BackfillRebuildsFromIndex ==
    phase = "backfilled" =>
        /\ store.index = preStore.index
        /\ StoreIds(store) = IndexKeys(store.index)
        /\ \A id \in StoreIds(store) :
            \A i \in CategoriesWith(store, id) :
                store.categories[i].slug = IndexGet(store.index, id)
        /\ StoreSlugs(store) = IndexedSlugs(store.index)

\* Backfill ran on a store with a category that no index entry names and
\* dropped it, keeping the indexed records
C39_Witness ==
    /\ phase = "backfilled"
    /\ IndexKeys(store.index) # {}
    /\ StoreSlugs(preStore) \ IndexedSlugs(preStore.index) # {}
    /\ StoreSlugs(store) = IndexedSlugs(store.index)
    /\ StoreIds(store) = IndexKeys(store.index)

(***************************************************************************)
(* What streamWithAutoShrink covers, and what makes it bisect              *)
(***************************************************************************)
\* the groups of the calls that completed, in the order of the calls
RECURSIVE SucceededGroups(_)
SucceededGroups(calls) ==
    IF calls = <<>> THEN <<>>
    ELSE IF Head(calls).err = NoError
         THEN <<Head(calls).group>> \o SucceededGroups(Tail(calls))
         ELSE SucceededGroups(Tail(calls))

RECURSIVE Concat(_)
Concat(seqs) == IF seqs = <<>> THEN <<>> ELSE Head(seqs) \o Concat(Tail(seqs))

\* streamWithAutoShrink has completed without raising
ShrinkCompleted == groups = <<>> /\ shrinkRaised = NoError

\* C32: when streamWithAutoShrink completes without raising, the
\* sub-batches whose call and stream completed are pairwise disjoint, in
\* the original record order, and their concatenation is the initial
\* batch: every record is covered by exactly one successful call.
C32_SuccessfulCallsPartitionTheBatch ==
    ShrinkCompleted =>
        LET done == SucceededGroups(processed)
        IN  /\ Concat(done) = initialBatch
            /\ \A i, j \in 1..Len(done) :
                i # j => Range(done[i]) \cap Range(done[j]) = {}
            /\ \A r \in Range(initialBatch) :
                Cardinality({i \in 1..Len(done) : r \in Range(done[i])}) = 1

\* a batch of MaxBatch records completed after bisections down to calls of
\* one record and of several records
C32_Witness ==
    /\ ShrinkCompleted
    /\ Len(initialBatch) = MaxBatch
    /\ Len(SucceededGroups(processed)) >= 3
    /\ \E i \in 1..Len(processed) : processed[i].err # NoError
    /\ \E g \in Range(SucceededGroups(processed)) : Len(g) > 1

\* call i ended with an error that streamWithAutoShrink did not raise: its
\* group was bisected
Bisected(i) ==
    /\ processed[i].err # NoError
    /\ shrinkRaised # processed[i].err

\* C33: streamWithAutoShrink bisects a batch only for errors that
\* safeStreamObject also classifies as overflow: every error that triggers
\* a bisection matches the executor's overflow signature, and any other
\* error propagates without bisection.
C33_BisectsOnlyOnExecutorOverflow ==
    \A i \in 1..Len(processed) : Bisected(i) => IsCtx(processed[i].err)

\* an error that says "invalid token" has bisected a batch
C33_InvalidTokenBisects ==
    \E i \in 1..Len(processed) :
        /\ Bisected(i)
        /\ ~IsCtx(processed[i].err)
        /\ Contains(processed[i].err.message,
                    <<"i", "n", "v", "a", "l", "i", "d">>)

\* an error of the executor's overflow signature that the pattern of
\* streamWithAutoShrink does not match ends the call without bisection
C33_TooLargePropagates ==
    /\ shrinkRaised # NoError
    /\ IsCtx(shrinkRaised)
    /\ ~IsOverflowClass(shrinkRaised)
    /\ Len(processed[Len(processed)].group) > 1

(***************************************************************************)
(* Errors of the returned stream are not the executor's                    *)
(***************************************************************************)
\* safeStreamObject has returned the stream to its caller
Returned == calling \in {"returned", "consumerFailed"}

\* C31: safeStreamObject retries only errors thrown by the streaming call
\* itself: once it has returned the stream, an error raised while the
\* caller iterates partialObjectStream, of the overflow signature or not,
\* is not caught, re-fitted or retried by safeStreamObject (no further
\* attempt, no request sent, no message changed, nothing caught or
\* re-raised) and reaches the caller as it is.
C31_ErrorsAfterReturnBypassTheExecutor ==
    [][Returned =>
          /\ attempt' = attempt
          /\ sent' = sent
          /\ currentMessages' = currentMessages
          /\ thrown' = thrown
          /\ raised' = raised
          /\ calling' = "consumerFailed"
          /\ streamError'.message \in ErrorMessages
          /\ streamError'.id = attempt]_vars

\* the stream of the second attempt failed under its consumer with an
\* error of the overflow signature while a retry was still allowed
C31_Witness ==
    /\ calling = "consumerFailed"
    /\ IsCtx(streamError)
    /\ attempt = 2
    /\ attempt <= maxRetries
    /\ Len(thrown) = 1
    /\ Len(sent) = 2
    /\ raised = NoError

====
